---------------------------- MODULE Spec2Model ----------------------------
(***************************************************************************)
(* A model of the federation and routing core of oxproxion:                *)
(*   - ConflictResolver.resolve            (src/federation_service.py)     *)
(*   - ProblemRouter / MultiRepoOrchestrator (src/orchestrator.py)         *)
(*   - FederationService sync ledger       (src/federation_service.py)     *)
(*   - KnowledgeExporter.export_batch      (src/knowledge_exporter.py)     *)
(* Each component has its own specifications (SpecResolve, SpecOrder,      *)
(* SpecRouter, SpecRouting, SpecSolve, SpecOrch, SpecSync, SpecStats,      *)
(* SpecSyncCrash, SpecSyncPair, SpecExport); the variables of the other    *)
(* components stay at their constructed values.                            *)
(***************************************************************************)
EXTENDS Integers, Sequences, FiniteSets, TLC

VARIABLES
    \* ---- ConflictResolver ----
    omnilore_entry,     \* first argument of resolve (entry_A)
    oxproxion_entry,    \* second argument of resolve (entry_B)
    resolver_client,    \* ConflictResolver.omnilore_client: "present" | "none"
    resolved,           \* outcome of the resolve call
    audit_tasks,        \* store coroutines handed to asyncio.create_task
    third_entry,        \* a third entry, for resolve applied to each pair of three
    winners,            \* what resolve returned for the pairs, in call order
    \* ---- ProblemRouter / MultiRepoOrchestrator ----
    orch_up,            \* the orchestrator object exists (its constructor returned)
    agent_pool,         \* ProblemRouter.agent_pool, in dict (insertion) order
    routing_history,    \* ProblemRouter.routing_history
    solutions,          \* MultiRepoOrchestrator.solutions
    orch_file,          \* the orchestration state file
    orch_clock,         \* datetime.now() as read by the orchestrator
    orch_ret,           \* the last orchestrator/router call and its outcome
    \* ---- FederationService ----
    fed_up,             \* the service object exists (its constructor returned)
    sync_history,       \* FederationService.sync_history, the in-memory ledger
    sync_file,          \* the federation state file
    fed_clock,          \* datetime.now() as read by the service
    fed_pc,             \* where the running coroutine stands
    call,               \* the register_sync invocation in progress (or the last one)
    batch,              \* the sync_batch invocation in progress (or the last one)
    fed_ret,            \* the last finished top-level call and its outcome
    interrupted,        \* timestamps of the events whose register_sync a crash cut
                        \* short between the append and the persist
    \* ---- two concurrent callers of sync_batch on one state file ----
    peer_shares,        \* the second caller uses the same FederationService object
                        \* (TRUE) or a second object constructed on the same file
    peer_history,       \* sync_history of that second object
    co_pc,              \* where each caller's coroutine stands
    co_call,            \* each caller's register_sync invocation in progress
    co_batch,           \* each caller's sync_batch locals
    co_ret,             \* how each caller's sync_batch ended
    registered,         \* the events whose register_sync returned without error
    \* ---- a second task on the service: a caller of get_sync_stats ----
    stats_call,         \* where that call stands, the dict it computed, how it ended
    \* ---- KnowledgeExporter ----
    exp_client,         \* self.omnilore_client: "present" or "none"
    export_stats,       \* self.export_stats: exported_entries and errors
    exp,                \* the locals of the export_batch call in progress
    exp_ret             \* how export_batch ended

vars_res == <<omnilore_entry, oxproxion_entry, resolver_client, resolved, audit_tasks>>

vars_orch == <<orch_up, agent_pool, routing_history, solutions, orch_file,
               orch_clock, orch_ret>>

vars_fed == <<fed_up, sync_history, sync_file, fed_clock, fed_pc, call, batch,
              fed_ret, interrupted>>

vars_order == <<third_entry, winners>>

vars_pair == <<peer_shares, peer_history, co_pc, co_call, co_batch, co_ret, registered>>

vars_exp == <<exp_client, export_stats, exp, exp_ret>>

vars == <<vars_res, vars_order, vars_orch, vars_fed, vars_pair, stats_call, vars_exp>>

\* what the actions of one component leave alone
not_res == <<vars_order, vars_orch, vars_fed, vars_pair, stats_call, vars_exp>>

not_orch == <<vars_res, vars_order, vars_fed, vars_pair, stats_call, vars_exp>>

not_fed == <<vars_res, vars_order, vars_orch, vars_pair, stats_call, vars_exp>>

----------------------------------------------------------------------------
(***************************************************************************)
(* Bounds of the model.                                                    *)
(***************************************************************************)

\* A confidence k stands for the float k / ConfDen (k in 0..ConfDen).  Floats
\* on this grid are far enough from the 0.1 threshold that Python's float
\* comparison abs(a - b) > 0.1 agrees with the exact one, 10 * |ka - kb| > ConfDen.
ConfDen == 16

\* created_at strings are TsWidth characters long over the digits 0..MaxDigit.
TsWidth == 2

MaxDigit == 1

\* The orchestrator reads the clock at most MaxOrchClock times in a run.
MaxOrchClock == 3

\* "solutions": self.solutions[-100:]
SolutionsKept == 100

\* The federation service reads the clock at most MaxFedClock times in a run.
MaxFedClock == 5

\* A batch holds at most MaxBatch entries.
MaxBatch == 2

\* "syncs": self.sync_history[-100:]
SyncsKept == 100

----------------------------------------------------------------------------
(***************************************************************************)
(* ConflictResolver.resolve                                                *)
(***************************************************************************)

Confidences == 0..ConfDen

Timestamps == [1..TsWidth -> 0..MaxDigit]

\* The temporal position of a well-formed (fixed-width) timestamp.
RECURSIVE TsValue(_)
TsValue(s) ==
    IF Len(s) = 0 THEN 0
    ELSE TsValue(SubSeq(s, 1, Len(s) - 1)) * (MaxDigit + 1) + s[Len(s)]

\* Python's str ">" : lexicographic on characters, a proper prefix is smaller.
StrGT(s, t) ==
    \E k \in 1..Len(s) :
        /\ \A i \in 1..(k - 1) : i <= Len(t) /\ s[i] = t[i]
        /\ (k > Len(t) \/ s[k] > t[k])

EntriesOf(repo) ==
    [id : {"k1"}, source_repo : {repo},
     confidence : Confidences, created_at : Timestamps]

NoEntry == [id |-> "", source_repo |-> "", confidence |-> 0, created_at |-> <<>>]

Abs(x) == IF x < 0 THEN 0 - x ELSE x

\* conf_diff, in units of 1 / ConfDen
conf_diff(a, b) == Abs(a.confidence - b.confidence)

\* conf_diff > 0.1
ExceedsThreshold(d) == 10 * d > ConfDen

\* a slip in the comparison: the lower confidence wins
HigherConfidence_lower(a, b) == IF a.confidence < b.confidence THEN a ELSE b

\* the "Use higher confidence" branch
HigherConfidence(a, b) == IF a.confidence > b.confidence THEN a ELSE b

\* a slip in the comparison: ">=" hands equal timestamps to the second entry
MoreRecent_ge(a, b) == IF ~StrGT(a.created_at, b.created_at) THEN b ELSE a

\* the "Use more recent" branch
MoreRecent(a, b) == IF StrGT(b.created_at, a.created_at) THEN b ELSE a

selected(a, b) ==
    IF ExceedsThreshold(conf_diff(a, b))
    THEN HigherConfidence(a, b)
    ELSE MoreRecent(a, b)

Strategy(a, b) == IF ExceedsThreshold(conf_diff(a, b)) THEN "Confidence" ELSE "Recency"

\* The resolver before any call, for the specifications of the other components.
QuietResolve ==
    /\ third_entry = NoEntry
    /\ winners = <<>>
    /\ omnilore_entry = NoEntry
    /\ oxproxion_entry = NoEntry
    /\ resolver_client = "present"
    /\ resolved = [status |-> "pending", selected |-> NoEntry]
    /\ audit_tasks = <<>>

InitResolve ==
    /\ third_entry = NoEntry
    /\ winners = <<>>
    /\ omnilore_entry \in EntriesOf("omnilore")
    /\ oxproxion_entry \in EntriesOf("oxproxion")
    /\ resolver_client \in {"present", "none"}
    /\ resolved = [status |-> "pending", selected |-> NoEntry]
    /\ audit_tasks = <<>>

\* the selected entry is updated in place with the higher of the two
\* confidences before it is returned
ResolveReturns_merges ==
    /\ resolved.status = "pending"
    /\ resolver_client = "present"
    /\ LET sel == selected(omnilore_entry, oxproxion_entry)
           top == IF omnilore_entry.confidence > oxproxion_entry.confidence
                  THEN omnilore_entry.confidence ELSE oxproxion_entry.confidence
           merged == [sel EXCEPT !.confidence = top]
       IN  /\ audit_tasks' = Append(audit_tasks,
                  [state |-> "scheduled",
                   strategy |-> Strategy(omnilore_entry, oxproxion_entry),
                   selected_id |-> sel.id,
                   confidence |-> top])
           /\ resolved' = [status |-> "returned", selected |-> merged]
           /\ omnilore_entry' = IF sel = omnilore_entry THEN merged ELSE omnilore_entry
           /\ oxproxion_entry' = IF sel = omnilore_entry THEN oxproxion_entry ELSE merged
    /\ UNCHANGED resolver_client
    /\ UNCHANGED not_res

\* await resolver.resolve(omnilore_entry, oxproxion_entry)
ResolveReturns ==
    /\ resolved.status = "pending"
    /\ resolver_client = "present"
    /\ audit_tasks' = Append(audit_tasks,
            [state |-> "scheduled",
             strategy |-> Strategy(omnilore_entry, oxproxion_entry),
             selected_id |-> selected(omnilore_entry, oxproxion_entry).id,
             confidence |-> selected(omnilore_entry, oxproxion_entry).confidence])
    /\ resolved' = [status |-> "returned",
                    selected |-> selected(omnilore_entry, oxproxion_entry)]
    /\ UNCHANGED <<omnilore_entry, oxproxion_entry, resolver_client>>
    /\ UNCHANGED not_res

\* self.omnilore_client is None: the attribute lookup .store raises before
\* any task is created and before the return.
ResolveRaises ==
    /\ resolved.status = "pending"
    /\ resolver_client = "none"
    /\ resolved' = [status |-> "raised", selected |-> NoEntry]
    /\ UNCHANGED <<omnilore_entry, oxproxion_entry, resolver_client, audit_tasks>>
    /\ UNCHANGED not_res

resolve == ResolveReturns \/ ResolveRaises

\* Three entries X, Y, Z for the same knowledge id; a resolver with a
\* collaborator is asked about the pairs.
InitOrder ==
    /\ omnilore_entry \in EntriesOf("omnilore")
    /\ oxproxion_entry \in EntriesOf("oxproxion")
    /\ third_entry \in EntriesOf("third")
    /\ winners = <<>>
    /\ resolver_client = "present"
    /\ resolved = [status |-> "pending", selected |-> NoEntry]
    /\ audit_tasks = <<>>

\* the arguments of the next call: resolve(X, Y), resolve(Y, Z), resolve(X, Z)
NextPair ==
    CASE Len(winners) = 0 -> <<omnilore_entry, oxproxion_entry>>
      [] Len(winners) = 1 -> <<oxproxion_entry, third_entry>>
      [] OTHER            -> <<omnilore_entry, third_entry>>

\* await resolver.resolve(a, b) for the next pair <<a, b>>
ResolvePair ==
    /\ Len(winners) < 3
    /\ winners' = Append(winners, selected(NextPair[1], NextPair[2]))
    /\ audit_tasks' = Append(audit_tasks,
            [state |-> "scheduled",
             strategy |-> Strategy(NextPair[1], NextPair[2]),
             selected_id |-> selected(NextPair[1], NextPair[2]).id,
             confidence |-> selected(NextPair[1], NextPair[2]).confidence])
    /\ UNCHANGED <<omnilore_entry, oxproxion_entry, third_entry, resolver_client, resolved>>
    /\ UNCHANGED <<vars_orch, vars_fed, vars_pair, stats_call, vars_exp>>

\* The event loop runs the task that line 272 created: the store coroutine
\* finishes or raises inside the task, after resolve has returned.  A store
\* that never completes is a task that stays "scheduled".
AuditTaskEnds ==
    /\ audit_tasks # <<>>
    /\ audit_tasks[1].state = "scheduled"
    /\ \E outcome \in {"done", "failed"} :
          audit_tasks' = [audit_tasks EXCEPT ![1].state = outcome]
    /\ UNCHANGED <<omnilore_entry, oxproxion_entry, resolver_client, resolved>>
    /\ UNCHANGED not_res

----------------------------------------------------------------------------
(***************************************************************************)
(* ProblemRouter                                                           *)
(***************************************************************************)

AgentNames == {"omnilore", "oxproxion", "agent3"}

\* solving_capacity values a configured pool may carry
Capacities == {1, 3}

ProblemTypes == {"code", "general"}

\* ProblemRouter.__init__: the hard-coded pool
ConstructedPool ==
    << [name |-> "omnilore", available |-> TRUE, solving_capacity |-> 100],
       [name |-> "oxproxion", available |-> TRUE, solving_capacity |-> 100] >>

\* The pools an external configuration may install: any agents, in any
\* registration order, no name twice (agent_pool is a dict).
Pools ==
    { p \in UNION { [1..n -> [name : AgentNames, available : BOOLEAN,
                              solving_capacity : Capacities]] : n \in 0..Cardinality(AgentNames) } :
        \A i, j \in DOMAIN p : i # j => p[i].name # p[j].name }

HasAgent(pool, n) == \E i \in DOMAIN pool : pool[i].name = n

\* self.agent_pool[n]
AgentOf(pool, n) == pool[CHOOSE i \in DOMAIN pool : pool[i].name = n]

\* available = [name for name, agent in self.agent_pool.items() if agent["available"]]
available(pool) == SelectSeq(pool, LAMBDA a : a.available)

\* a slip in the tie-break: the last element that reaches the minimum
MinFirst_last(seq) ==
    seq[CHOOSE i \in DOMAIN seq :
            /\ \A j \in DOMAIN seq : seq[i].solving_capacity <= seq[j].solving_capacity
            /\ \A j \in (i + 1)..Len(seq) : seq[j].solving_capacity > seq[i].solving_capacity]

\* min(available, key=...): the first element that reaches the minimum
MinFirst(seq) ==
    seq[CHOOSE i \in DOMAIN seq :
            /\ \A j \in DOMAIN seq : seq[i].solving_capacity <= seq[j].solving_capacity
            /\ \A j \in 1..(i - 1) : seq[j].solving_capacity > seq[i].solving_capacity]

\* the load-balancing choice of select_agent
LeastLoaded(pool) == MinFirst(available(pool)).name

\* the prefer_local choice of select_agent, for a pool that holds "omnilore"
PreferLocal(pool) ==
    IF AgentOf(pool, "omnilore").available THEN "omnilore" ELSE "oxproxion"

RoutingRecord(ptype, agent) ==
    [timestamp |-> orch_clock + 1, problem_type |-> ptype, selected_agent |-> agent]

\* get_routing_stats
NoRoutingStats == [total_routed |-> 0, by_agent |-> <<>>, problem_types |-> <<>>]

\* d.get(k, 0)
DictGet(d, k) == IF k \in DOMAIN d THEN d[k] ELSE 0

\* every record sets its key's count to one
RECURSIVE Tally_flat(_, _)
Tally_flat(history, field) ==
    IF history = <<>>
    THEN <<>>
    ELSE LET d == Tally_flat(SubSeq(history, 1, Len(history) - 1), field)
             k == history[Len(history)][field]
         IN  [x \in DOMAIN d \cup {k} |-> IF x = k THEN 1 ELSE d[x]]

\* the loop of lines 103-108 for one of its two dictionaries: for each route
\* in order, d[route[field]] = d.get(route[field], 0) + 1
RECURSIVE Tally(_, _)
Tally(history, field) ==
    IF history = <<>>
    THEN <<>>
    ELSE LET d == Tally(SubSeq(history, 1, Len(history) - 1), field)
             k == history[Len(history)][field]
         IN  [x \in DOMAIN d \cup {k} |-> IF x = k THEN DictGet(d, k) + 1 ELSE d[x]]

get_routing_stats(history) ==
    IF history = <<>>
    THEN NoRoutingStats
    ELSE [total_routed |-> Len(history),
          by_agent |-> Tally(history, "selected_agent"),
          problem_types |-> Tally(history, "problem_type")]

NoSolution == [timestamp |-> 0, problem |-> "", problem_type |-> "",
               solved_by |-> "", status |-> ""]

\* The observable outcome of a call.  problem_type is kept for the calls that
\* record it (the load-balancing branch, a saved solution).
\* what get_orchestration_stats returns on an empty solution log (lines
\* 193-198); success_rate is a fraction <<numerator, denominator>>, and
\* divided tells whether line 202-205 computed it by a division
NoOrchStats == [total_problems_solved |-> 0, success_rate |-> <<0, 1>>,
                divided |-> FALSE, total_routed |-> 0]

Ret(op, ptype, local, outcome, agent, exc, rec) ==
    [op |-> op, problem_type |-> ptype, prefer_local |-> local,
     outcome |-> outcome, agent |-> agent, exc |-> exc, record |-> rec,
     stats |-> NoOrchStats, routing_stats |-> NoRoutingStats]

\* select_agent(problem_type, prefer_local=True), for any problem_type (the
\* branch does not read it)
SelectAgentLocal ==
    /\ orch_up
    /\ orch_ret' =
          IF ~HasAgent(agent_pool, "omnilore")
          THEN Ret("select_agent", "", TRUE, "raised", "", "KeyError", NoSolution)
          ELSE Ret("select_agent", "", TRUE, "returned", PreferLocal(agent_pool),
                   "", NoSolution)
    /\ UNCHANGED <<orch_up, agent_pool, routing_history, solutions, orch_file, orch_clock>>
    /\ UNCHANGED not_orch

\* a silent fallback in place of the error: the default agent is recorded
SelectAgentNone_fallback ==
    /\ orch_up
    /\ orch_clock < MaxOrchClock
    /\ available(agent_pool) = <<>>
    /\ routing_history' = Append(routing_history, RoutingRecord("general", "omnilore"))
    /\ orch_clock' = orch_clock + 1
    /\ orch_ret' = Ret("select_agent", "", FALSE, "raised", "", "RuntimeError", NoSolution)
    /\ UNCHANGED <<orch_up, agent_pool, solutions, orch_file>>
    /\ UNCHANGED not_orch

\* select_agent(problem_type, prefer_local=False) with no available agent,
\* for any problem_type
SelectAgentNone ==
    /\ orch_up
    /\ available(agent_pool) = <<>>
    /\ orch_ret' = Ret("select_agent", "", FALSE, "raised", "", "RuntimeError", NoSolution)
    /\ UNCHANGED <<orch_up, agent_pool, routing_history, solutions, orch_file, orch_clock>>
    /\ UNCHANGED not_orch

\* the selection is returned but not recorded
SelectAgentBalanced_silent(ptype) ==
    /\ orch_up
    /\ orch_clock < MaxOrchClock
    /\ available(agent_pool) # <<>>
    /\ orch_clock' = orch_clock + 1
    /\ orch_ret' = Ret("select_agent", ptype, FALSE, "returned",
                       LeastLoaded(agent_pool), "", NoSolution)
    /\ UNCHANGED <<orch_up, agent_pool, routing_history, solutions, orch_file>>
    /\ UNCHANGED not_orch

\* the load of the selected agent is raised by the selection
SelectAgentBalanced_loads(ptype) ==
    /\ orch_up
    /\ orch_clock < MaxOrchClock
    /\ available(agent_pool) # <<>>
    /\ routing_history' =
          Append(routing_history, RoutingRecord(ptype, LeastLoaded(agent_pool)))
    /\ agent_pool' = [i \in DOMAIN agent_pool |->
                        IF agent_pool[i].name = LeastLoaded(agent_pool)
                        THEN [agent_pool[i] EXCEPT !.solving_capacity = @ + 1]
                        ELSE agent_pool[i]]
    /\ orch_clock' = orch_clock + 1
    /\ orch_ret' = Ret("select_agent", ptype, FALSE, "returned",
                       LeastLoaded(agent_pool), "", NoSolution)
    /\ UNCHANGED <<orch_up, solutions, orch_file>>
    /\ UNCHANGED not_orch

\* select_agent(problem_type, prefer_local=False), the load-balancing branch
SelectAgentBalanced(ptype) ==
    /\ orch_up
    /\ orch_clock < MaxOrchClock
    /\ available(agent_pool) # <<>>
    /\ routing_history' =
          Append(routing_history, RoutingRecord(ptype, LeastLoaded(agent_pool)))
    /\ orch_clock' = orch_clock + 1
    /\ orch_ret' = Ret("select_agent", ptype, FALSE, "returned",
                       LeastLoaded(agent_pool), "", NoSolution)
    /\ UNCHANGED <<orch_up, agent_pool, solutions, orch_file>>
    /\ UNCHANGED not_orch

select_agent ==
    \/ SelectAgentLocal
    \/ SelectAgentNone
    \/ \E ptype \in ProblemTypes : SelectAgentBalanced(ptype)

\* An outage: the caller clears the "available" flag of every agent between
\* two calls.
SetUnavailable ==
    /\ orch_up
    /\ available(agent_pool) # <<>>
    /\ agent_pool' = [i \in DOMAIN agent_pool |-> [agent_pool[i] EXCEPT !.available = FALSE]]
    /\ orch_ret' = Ret("configure", "", FALSE, "returned", "", "", NoSolution)
    /\ UNCHANGED <<orch_up, routing_history, solutions, orch_file, orch_clock>>
    /\ UNCHANGED not_orch

\* The caller marks one agent unavailable (agent_pool[name]["available"] =
\* False); the router itself never does.
SetAgentUnavailable ==
    /\ orch_up
    /\ \E i \in DOMAIN agent_pool :
          /\ agent_pool[i].available
          /\ agent_pool' = [agent_pool EXCEPT ![i].available = FALSE]
    /\ orch_ret' = Ret("configure", "", FALSE, "returned", "", "", NoSolution)
    /\ UNCHANGED <<orch_up, routing_history, solutions, orch_file, orch_clock>>
    /\ UNCHANGED not_orch

\* a caller asks the router for get_routing_stats(); nothing is written
GetRoutingStats ==
    /\ orch_up
    /\ orch_ret' = [Ret("get_routing_stats", "", FALSE, "returned", "", "", NoSolution)
                      EXCEPT !.routing_stats = get_routing_stats(routing_history)]
    /\ UNCHANGED <<orch_up, agent_pool, routing_history, solutions, orch_file, orch_clock>>
    /\ UNCHANGED not_orch

\* The caller installs a pool (router.agent_pool = ...) right after
\* construction, before any routing.
ConfigurePool ==
    /\ orch_up
    /\ orch_ret.op = "init"
    /\ \E p \in Pools : agent_pool' = p
    /\ orch_ret' = Ret("configure", "", FALSE, "returned", "", "", NoSolution)
    /\ UNCHANGED <<orch_up, routing_history, solutions, orch_file, orch_clock>>
    /\ UNCHANGED not_orch

----------------------------------------------------------------------------
(***************************************************************************)
(* MultiRepoOrchestrator                                                   *)
(***************************************************************************)

\* a slip in the slice: seq[:n], the oldest n
LastN_first(seq, n) == IF Len(seq) <= n THEN seq ELSE SubSeq(seq, 1, n)

\* seq[-n:]
LastN(seq, n) == IF Len(seq) <= n THEN seq ELSE SubSeq(seq, Len(seq) - n + 1, Len(seq))

AbsentOrchFile ==
    [state |-> "absent", last_updated |-> 0, total_solutions |-> 0,
     router_stats |-> get_routing_stats(<<>>), solutions |-> <<>>]

\* a file whose rewrite was cut short: json.load raises on it
CorruptOrchFile == [AbsentOrchFile EXCEPT !.state = "corrupt"]

\* The document left by an earlier process that started without a file and
\* recorded n solutions, all routed to "omnilore"; their timestamps precede
\* this run's clock.
EarlierOrchFile(n) ==
    [state |-> "ok", last_updated |-> 0, total_solutions |-> n,
     router_stats |-> [total_routed |-> n,
                       by_agent |-> [a \in {"omnilore"} |-> n],
                       problem_types |-> [t \in {"general"} |-> n]],
     solutions |-> LastN([i \in 1..n |->
                             [timestamp |-> i - n, problem |-> "earlier",
                              problem_type |-> "general", solved_by |-> "omnilore",
                              status |-> "solved"]],
                         SolutionsKept)]

InitialOrchFiles ==
    {AbsentOrchFile, EarlierOrchFile(SolutionsKept - 1), EarlierOrchFile(SolutionsKept + 2)}

\* _load_state: data.get("solutions", []) when the file exists
LoadedSolutions(file) == IF file.state = "ok" THEN file.solutions ELSE <<>>

\* the document _save_state writes
SavedOrchFile(sols, history, now) ==
    [state |-> "ok", last_updated |-> now, total_solutions |-> Len(sols),
     router_stats |-> get_routing_stats(history),
     solutions |-> LastN(sols, SolutionsKept)]

\* the solution solve_problem builds
Solution(problem, ptype, agent, now) ==
    [timestamp |-> now, problem |-> problem, problem_type |-> ptype,
     solved_by |-> agent, status |-> "solved"]

\* the agent solve_problem asks the router for: select_agent(problem_type)
RoutedAgent(pool) == LeastLoaded(pool)

InitOrch ==
    /\ orch_file \in InitialOrchFiles
    /\ orch_up = TRUE
    /\ agent_pool = ConstructedPool
    /\ routing_history = <<>>
    /\ solutions = LoadedSolutions(orch_file)
    /\ orch_clock = 0
    /\ orch_ret = Ret("init", "", FALSE, "returned", "", "", NoSolution)

\* a silent fallback in place of the error: the failed route is recorded as a
\* solution of the default agent and saved
SolveRoutingFails_fallback ==
    /\ orch_up
    /\ orch_clock + 2 <= MaxOrchClock
    /\ available(agent_pool) = <<>>
    /\ LET sols == Append(solutions, Solution("fix bug", "general", "omnilore", orch_clock + 1))
       IN  /\ solutions' = sols
           /\ orch_file' = SavedOrchFile(sols, routing_history, orch_clock + 2)
    /\ orch_clock' = orch_clock + 2
    /\ orch_ret' = Ret("solve_problem", "", FALSE, "raised", "", "RuntimeError", NoSolution)
    /\ UNCHANGED <<orch_up, agent_pool, routing_history>>
    /\ UNCHANGED not_orch

\* solve_problem when select_agent raises, for any problem and problem_type:
\* nothing after line 173 runs
SolveRoutingFails ==
    /\ orch_up
    /\ available(agent_pool) = <<>>
    /\ orch_ret' = Ret("solve_problem", "", FALSE, "raised", "", "RuntimeError", NoSolution)
    /\ UNCHANGED <<orch_up, agent_pool, routing_history, solutions, orch_file, orch_clock>>
    /\ UNCHANGED not_orch

\* the solution is attributed to the local agent, whatever the router chose
SolveSavedBy_local(ptype, limit) ==
    /\ orch_up
    /\ orch_clock + 3 <= limit
    /\ available(agent_pool) # <<>>
    /\ LET agent == RoutedAgent(agent_pool)
           hist  == Append(routing_history, RoutingRecord(ptype, agent))
           sol   == Solution("fix bug", ptype, "oxproxion", orch_clock + 2)
           sols  == Append(solutions, sol)
       IN  /\ routing_history' = hist
           /\ solutions' = sols
           /\ orch_file' = SavedOrchFile(sols, hist, orch_clock + 3)
           /\ orch_clock' = orch_clock + 3
           /\ orch_ret' = Ret("solve_problem", ptype, FALSE, "returned", "oxproxion", "", sol)
    /\ UNCHANGED <<orch_up, agent_pool>>
    /\ UNCHANGED not_orch

\* solve_problem: route, append the solution, _save_state, return; the call
\* reads the clock three times and is followed while the clock is within limit
SolveSavedBy(ptype, limit) ==
    /\ orch_up
    /\ orch_clock + 3 <= limit
    /\ available(agent_pool) # <<>>
    /\ LET agent == RoutedAgent(agent_pool)
           hist  == Append(routing_history, RoutingRecord(ptype, agent))
           sol   == Solution("fix bug", ptype, agent, orch_clock + 2)
           sols  == Append(solutions, sol)
       IN  /\ routing_history' = hist
           /\ solutions' = sols
           /\ orch_file' = SavedOrchFile(sols, hist, orch_clock + 3)
           /\ orch_clock' = orch_clock + 3
           /\ orch_ret' = Ret("solve_problem", ptype, FALSE, "returned", agent, "", sol)
    /\ UNCHANGED <<orch_up, agent_pool>>
    /\ UNCHANGED not_orch

SolveSaved(ptype) == SolveSavedBy(ptype, MaxOrchClock)

\* solve_problem when the state file cannot be opened for writing: the
\* solution stays in memory, the file is untouched, OSError reaches the caller
SolveWriteDeniedBy(ptype, limit) ==
    /\ orch_up
    /\ orch_clock + 2 <= limit
    /\ available(agent_pool) # <<>>
    /\ LET agent == RoutedAgent(agent_pool)
           sol   == Solution("fix bug", ptype, agent, orch_clock + 2)
       IN  /\ routing_history' = Append(routing_history, RoutingRecord(ptype, agent))
           /\ solutions' = Append(solutions, sol)
           /\ orch_ret' = Ret("solve_problem", "", FALSE, "raised", "", "OSError", NoSolution)
    /\ orch_clock' = orch_clock + 2
    /\ UNCHANGED <<orch_up, agent_pool, orch_file>>
    /\ UNCHANGED not_orch

SolveWriteDenied(ptype) == SolveWriteDeniedBy(ptype, MaxOrchClock)

\* solve_problem when _save_state fails after open(..., "w") has truncated
\* the file (lines 148-158: the disk is full, the file size limit is hit):
\* the clock of line 151 was read, the file is left unreadable, the process
\* lives on with the route and the solution in memory, OSError reaches the
\* caller
SolveWriteFailsBy(ptype, limit) ==
    /\ orch_up
    /\ orch_clock + 3 <= limit
    /\ available(agent_pool) # <<>>
    /\ LET agent == RoutedAgent(agent_pool)
           sol   == Solution("fix bug", ptype, agent, orch_clock + 2)
       IN  /\ routing_history' = Append(routing_history, RoutingRecord(ptype, agent))
           /\ solutions' = Append(solutions, sol)
           /\ orch_ret' = Ret("solve_problem", "", FALSE, "raised", "", "OSError", NoSolution)
    /\ orch_file' = CorruptOrchFile
    /\ orch_clock' = orch_clock + 3
    /\ UNCHANGED <<orch_up, agent_pool>>
    /\ UNCHANGED not_orch

SolveWriteFails(ptype) == SolveWriteFailsBy(ptype, MaxOrchClock)

\* the process dies inside _save_state, after open(..., "w") truncated the
\* file, for any problem and problem_type
SolveTornWrite ==
    /\ orch_up
    /\ orch_clock + 2 <= MaxOrchClock
    /\ available(agent_pool) # <<>>
    /\ orch_up' = FALSE
    /\ orch_file' = CorruptOrchFile
    /\ agent_pool' = <<>>
    /\ routing_history' = <<>>
    /\ solutions' = <<>>
    /\ orch_clock' = orch_clock + 2
    /\ orch_ret' = Ret("crash", "", FALSE, "raised", "", "", NoSolution)
    /\ UNCHANGED not_orch

solve_problem ==
    \/ SolveRoutingFails
    \/ SolveTornWrite
    \/ \E ptype \in ProblemTypes :
          SolveSaved(ptype) \/ SolveWriteDenied(ptype) \/ SolveWriteFails(ptype)

\* The process ends and a new one constructs the orchestrator again:
\* ProblemRouter.__init__ and _load_state.  json.load raises on a corrupt file
\* and no orchestrator is constructed.
Restart ==
    /\ orch_up' = (orch_file.state # "corrupt")
    /\ agent_pool' = IF orch_file.state # "corrupt" THEN ConstructedPool ELSE <<>>
    /\ routing_history' = <<>>
    /\ solutions' = LoadedSolutions(orch_file)
    /\ orch_ret' = IF orch_file.state # "corrupt"
                   THEN Ret("init", "", FALSE, "returned", "", "", NoSolution)
                   ELSE Ret("init", "", FALSE, "raised", "", "JSONDecodeError", NoSolution)
    /\ UNCHANGED <<orch_file, orch_clock>>
    /\ UNCHANGED not_orch

\* sum(1 for s in self.solutions if s["status"] == "solved")
CountSolved(sols) == Cardinality({i \in DOMAIN sols : sols[i].status = "solved"})

\* a slip in the denominator: the number of solutions the file keeps
SuccessRate_kept(sols) == <<CountSolved(sols), Len(LastN(sols, SolutionsKept))>>

\* lines 202-205: the quotient, as the fraction of its two operands
SuccessRate(sols) == <<CountSolved(sols), Len(sols)>>

\* the dict get_orchestration_stats returns
get_orchestration_stats(sols, history) ==
    IF sols = <<>>
    THEN [NoOrchStats EXCEPT !.total_routed = get_routing_stats(history).total_routed]
    ELSE [total_problems_solved |-> Len(sols),
          success_rate |-> SuccessRate(sols),
          divided |-> TRUE,
          total_routed |-> get_routing_stats(history).total_routed]

\* a caller asks for get_orchestration_stats(); nothing is written
GetOrchestrationStats ==
    /\ orch_up
    /\ orch_ret' = [Ret("get_orchestration_stats", "", FALSE, "returned", "", "", NoSolution)
                      EXCEPT !.stats = get_orchestration_stats(solutions, routing_history)]
    /\ UNCHANGED <<orch_up, agent_pool, routing_history, solutions, orch_file, orch_clock>>
    /\ UNCHANGED not_orch

QuietOrch ==
    /\ orch_file = AbsentOrchFile
    /\ orch_up = TRUE
    /\ agent_pool = ConstructedPool
    /\ routing_history = <<>>
    /\ solutions = <<>>
    /\ orch_clock = 0
    /\ orch_ret = Ret("init", "", FALSE, "returned", "", "", NoSolution)

----------------------------------------------------------------------------
(***************************************************************************)
(* KnowledgeExporter (src/knowledge_exporter.py)                           *)
(***************************************************************************)

MaxQueries == 3

Queries == {"q1", "q2"}

\* the lists of queries a caller passes to export_batch
QueryLists == UNION {[1..n -> Queries] : n \in 0..MaxQueries}

\* self.export_stats after __init__ (lines 31-35), without its start time
NoExportStats == [exported_entries |-> 0, errors |-> 0]

\* no export_batch call is in progress; pc is the await the call is
\* suspended at
NoExport == [pc |-> "idle", queries |-> <<>>, results |-> <<>>,
             success_count |-> 0, error_count |-> 0]

\* what export_batch returns (lines 148-154), without its timestamp
NoExportResult == [exported_entries |-> 0, errors |-> 0, total |-> 0, results |-> <<>>]

ExpRet(outcome, exc, result) ==
    [op |-> "export_batch", outcome |-> outcome, exc |-> exc, result |-> result]

QuietExport ==
    /\ exp_client = "present"
    /\ export_stats = NoExportStats
    /\ exp = NoExport
    /\ exp_ret = [op |-> "init", outcome |-> "", exc |-> "", result |-> NoExportResult]

\* KnowledgeExporter(omnilore_client), the collaborator given or left None
InitExport ==
    /\ exp_client \in {"present", "none"}
    /\ export_stats = NoExportStats
    /\ exp = NoExport
    /\ exp_ret = [op |-> "init", outcome |-> "", exc |-> "", result |-> NoExportResult]

not_exp == <<vars_res, vars_order, vars_orch, vars_fed, vars_pair, stats_call>>

\* the dictionary query_and_export returns on success (lines 72-77)
Exported(query) == [query |-> query, exported |-> TRUE, guidance |-> ""]

\* the dictionary query_and_export returns from its handler (lines 95-100)
NotExported(query, recovery) == [query |-> query, exported |-> FALSE, guidance |-> recovery]

\* the query the loop of line 121 is at
CurrentQuery == exp.queries[Len(exp.results) + 1]

\* the call is inside query_and_export for the current query, suspended at pc
InQuery(pc) == exp_client = "present" /\ exp.pc = pc

\* the await the call reaches once n results are in: smart_chat for the next
\* query (line 57) or, after the loop, the store of the batch (line 132)
NextAwait(n) == IF n < Len(exp.queries) THEN "smart_chat" ELSE "batch_store"

\* lines 123-129: the result is appended and counted by its "exported" key,
\* and the loop goes on
Counted(result) ==
    [exp EXCEPT !.results = Append(@, result),
                !.success_count = IF result.exported THEN @ + 1 ELSE @,
                !.error_count = IF result.exported THEN @ ELSE @ + 1,
                !.pc = NextAwait(Len(exp.results) + 1)]

\* export_batch raises: its locals are gone
ExportRaises(exc) ==
    /\ exp' = NoExport
    /\ exp_ret' = ExpRet("raised", exc, NoExportResult)

\* await exporter.export_batch(queries): lines 114-121, up to the first await
ExportBatchCall ==
    /\ exp_ret.op = "init"
    /\ exp_client = "present"
    /\ \E queries \in QueryLists :
          exp' = [NoExport EXCEPT !.queries = queries,
                     !.pc = IF queries = <<>> THEN "batch_store" ELSE "smart_chat"]
    /\ exp_ret' = ExpRet("pending", "", NoExportResult)
    /\ UNCHANGED <<exp_client, export_stats>>
    /\ UNCHANGED not_exp

\* export_batch without a collaborator: None.smart_chat raises AttributeError
\* (line 57) and so does None.query in the handler (line 81), or, for an
\* empty list, None.store does (line 132); no await is reached
ExportNoClient ==
    /\ exp_ret.op = "init"
    /\ exp_client = "none"
    /\ \E queries \in QueryLists : ExportRaises("AttributeError")
    /\ UNCHANGED <<exp_client, export_stats>>
    /\ UNCHANGED not_exp

\* line 57: smart_chat returns and the store of the export is awaited (line
\* 63), or smart_chat raises and the handler awaits its query (line 81)
QueryChat ==
    /\ InQuery("smart_chat")
    /\ \E outcome \in {"ok", "raises"} :
          exp' = [exp EXCEPT !.pc = IF outcome = "ok" THEN "store" ELSE "recovery_query"]
    /\ UNCHANGED <<exp_client, export_stats, exp_ret>>
    /\ UNCHANGED not_exp

\* lines 63-77: the store returns, the export is counted in export_stats and
\* its result returned to the loop; or the store raises into the handler
QueryStore ==
    /\ InQuery("store")
    /\ \E outcome \in {"ok", "raises"} :
          IF outcome = "ok"
          THEN /\ export_stats' = [export_stats EXCEPT !.exported_entries = @ + 1]
               /\ exp' = Counted(Exported(CurrentQuery))
          ELSE /\ exp' = [exp EXCEPT !.pc = "recovery_query"]
               /\ UNCHANGED export_stats
    /\ UNCHANGED <<exp_client, exp_ret>>
    /\ UNCHANGED not_exp

\* lines 81-100: the handler's query answers nothing and the error is counted
\* and returned to the loop; or it answers a text, whose store is awaited
\* (line 87); or it raises, and nothing catches that, in query_and_export or
\* in export_batch
QueryRecovery ==
    /\ InQuery("recovery_query")
    /\ \E outcome \in {"text", "empty", "raises"} :
          CASE outcome = "raises" ->
                  ExportRaises("Exception") /\ UNCHANGED export_stats
            [] outcome = "empty" ->
                  /\ export_stats' = [export_stats EXCEPT !.errors = @ + 1]
                  /\ exp' = Counted(NotExported(CurrentQuery, ""))
                  /\ UNCHANGED exp_ret
            [] outcome = "text" ->
                  /\ exp' = [exp EXCEPT !.pc = "recovery_store"]
                  /\ UNCHANGED <<export_stats, exp_ret>>
    /\ UNCHANGED exp_client
    /\ UNCHANGED not_exp

\* lines 87-100: the store of the guidance returns and the error is counted
\* and returned to the loop; or it raises out of export_batch
QueryRecoveryStore ==
    /\ InQuery("recovery_store")
    /\ \E outcome \in {"ok", "raises"} :
          IF outcome = "raises"
          THEN ExportRaises("Exception") /\ UNCHANGED export_stats
          ELSE /\ export_stats' = [export_stats EXCEPT !.errors = @ + 1]
               /\ exp' = Counted(NotExported(CurrentQuery, "guidance"))
               /\ UNCHANGED exp_ret
    /\ UNCHANGED exp_client
    /\ UNCHANGED not_exp

query_and_export == QueryChat \/ QueryStore \/ QueryRecovery \/ QueryRecoveryStore

\* lines 132-154: the store of the batch pattern returns and the counts are
\* returned, or it raises out of export_batch
ExportBatchStore ==
    /\ InQuery("batch_store")
    /\ \E outcome \in {"ok", "raises"} :
          IF outcome = "raises"
          THEN ExportRaises("Exception")
          ELSE /\ exp_ret' = ExpRet("returned", "",
                                   [exported_entries |-> exp.success_count,
                                    errors |-> exp.error_count,
                                    total |-> Len(exp.queries),
                                    results |-> exp.results])
               /\ exp' = [exp EXCEPT !.pc = "idle"]
    /\ UNCHANGED <<exp_client, export_stats>>
    /\ UNCHANGED not_exp

\* While export_batch is suspended at an await, another task's
\* query_and_export on the same exporter comes to its end: lines 70 and 93
\* change the shared export_stats, nothing else is shared.
MaxOtherExports == 1

OtherTaskExports ==
    /\ exp.pc # "idle"
    /\ export_stats.exported_entries + export_stats.errors
          < Len(exp.results) + MaxOtherExports
    /\ \E exported \in BOOLEAN :
          export_stats' = IF exported
                          THEN [export_stats EXCEPT !.exported_entries = @ + 1]
                          ELSE [export_stats EXCEPT !.errors = @ + 1]
    /\ UNCHANGED <<exp_client, exp, exp_ret>>
    /\ UNCHANGED not_exp

export_batch ==
    ExportBatchCall \/ ExportNoClient \/ query_and_export \/ ExportBatchStore

----------------------------------------------------------------------------
(***************************************************************************)
(* FederationService: the sync ledger                                      *)
(*                                                                         *)
(* One caller drives the service; its coroutine is followed from await to  *)
(* await.  datetime.now() is a logical clock that every read advances, so  *)
(* the timestamp of an event names the register_sync invocation that made  *)
(* it.                                                                     *)
(***************************************************************************)

Repos == {"omnilore", "oxproxion"}

EntryIds == {"e1", "e2"}

\* An entry of a batch: a dict that holds an "id", or a malformed one that
\* does not (entry["id"] raises KeyError).
BatchEntries == [has_id : {TRUE}, id : EntryIds] \cup {[has_id |-> FALSE, id |-> ""]}

Batches == UNION { [1..n -> BatchEntries] : n \in 0..MaxBatch }

\* what an awaited collaborator call may do
StoreOutcomes == {"ok", "raises"}

\* query returns a text, an empty text, or raises
QueryOutcomes == {"text", "empty", "raises"}

\* the dict register_sync appends; direction stands for f"{source} -> {target}"
SyncEvent(now, entry_id, source, target) ==
    [timestamp |-> now, entry_id |-> entry_id, direction |-> <<source, target>>]

AbsentSyncFile == [state |-> "absent", last_sync |-> 0, sync_count |-> 0, syncs |-> <<>>]

\* a file whose rewrite was cut short: json.load raises on it
CorruptSyncFile == [AbsentSyncFile EXCEPT !.state = "corrupt"]

\* The document left by an earlier process that started without a file and
\* registered n events; their timestamps precede this run's clock.
EarlierSyncFile(n) ==
    [state |-> "ok", last_sync |-> 0, sync_count |-> n,
     syncs |-> LastN([i \in 1..n |-> SyncEvent(i - n, "e0", "omnilore", "oxproxion")],
                     SyncsKept)]

InitialSyncFiles ==
    {AbsentSyncFile, EarlierSyncFile(SyncsKept - 1), EarlierSyncFile(SyncsKept + 2)}

\* _load_state: data.get("syncs", []) when the file exists
LoadedSyncs(file) == IF file.state = "ok" THEN file.syncs ELSE <<>>

\* a slip in the slice: sync_history[:100], the oldest events
SavedSyncFile_head(history, now) ==
    [state |-> "ok", last_sync |-> now, sync_count |-> Len(history),
     syncs |-> IF Len(history) <= SyncsKept THEN history
               ELSE SubSeq(history, 1, SyncsKept)]

\* the document _save_state writes
SavedSyncFile(history, now) ==
    [state |-> "ok", last_sync |-> now, sync_count |-> Len(history),
     syncs |-> LastN(history, SyncsKept)]

\* a retry slip: the event is appended twice
AppendEvent_twice(history, ev) == Append(Append(history, ev), ev)

\* self.sync_history.append(...)
AppendEvent(history, ev) == Append(history, ev)

NoCall == [timestamp |-> 0, entry_id |-> "", source |-> "", target |-> "", in_batch |-> FALSE]

\* the locals of sync_batch; only_malformed notes that so far nothing but
\* malformed entries has failed (no collaborator call, no file write)
NoBatch == [entries |-> <<>>, source |-> "", target |-> "", i |-> 1,
            synced |-> 0, conflicts |-> 0, errors |-> 0,
            only_malformed |-> TRUE,
            before |-> 0]       \* len(sync_history) when sync_batch was called

Malformed(entries) == {i \in DOMAIN entries : ~entries[i].has_id}

\* what a finished sync_batch leaves to its caller: the returned counts, next
\* to the size of the batch it was given
BatchResult(b) ==
    [synced |-> b.synced, conflicts |-> b.conflicts, errors |-> b.errors,
     entries |-> Len(b.entries), malformed |-> Cardinality(Malformed(b.entries)),
     only_malformed |-> b.only_malformed]

\* last_sync is <<>> for None and <<t>> for the timestamp t
NoStats == [total_syncs |-> 0, omnilore_to_oxproxion |-> 0,
            oxproxion_to_omnilore |-> 0, last_sync |-> <<>>]

\* no get_sync_stats call was made
NoStatsCall == [pc |-> "idle", stats |-> NoStats, outcome |-> ""]

FedRet(op, outcome, exc, b) ==
    [op |-> op, outcome |-> outcome, exc |-> exc, result |-> BatchResult(b),
     ledger_before |-> b.before]

\* the two callers of the two-caller specification
Callers == {1, 2}

NoCoBatch == [entries |-> <<>>, source |-> "", target |-> "", i |-> 1,
              synced |-> 0, errors |-> 0]

\* no second caller: the specifications of one caller
QuietPair ==
    /\ peer_shares = TRUE
    /\ peer_history = <<>>
    /\ co_pc = [t \in Callers |-> "idle"]
    /\ co_call = [t \in Callers |-> NoCall]
    /\ co_batch = [t \in Callers |-> NoCoBatch]
    /\ co_ret = [t \in Callers |-> "pending"]
    /\ registered = {}

\* a top-level call is in progress: it has no outcome yet
Pending == FedRet("pending", "", "", NoBatch)

InitFed ==
    /\ sync_file \in InitialSyncFiles
    /\ fed_up = TRUE
    /\ sync_history = LoadedSyncs(sync_file)
    /\ fed_clock = 0
    /\ fed_pc = "idle"
    /\ call = NoCall
    /\ batch = NoBatch
    /\ fed_ret = FedRet("init", "returned", "", NoBatch)
    /\ interrupted = {}
    /\ stats_call = NoStatsCall
    /\ QuietPair

QuietFed ==
    /\ sync_file = AbsentSyncFile
    /\ fed_up = TRUE
    /\ sync_history = <<>>
    /\ fed_clock = 0
    /\ fed_pc = "idle"
    /\ call = NoCall
    /\ batch = NoBatch
    /\ fed_ret = FedRet("init", "returned", "", NoBatch)
    /\ interrupted = {}
    /\ stats_call = NoStatsCall
    /\ QuietPair

\* ---- register_sync ----

\* lines 89-95: the event is appended, then the coroutine awaits store
RegisterAppend(entry_id, source, target, in_batch) ==
    /\ sync_history' = AppendEvent(sync_history,
                                   SyncEvent(fed_clock + 1, entry_id, source, target))
    /\ fed_clock' = fed_clock + 1
    /\ call' = [timestamp |-> fed_clock + 1, entry_id |-> entry_id,
                source |-> source, target |-> target, in_batch |-> in_batch]
    /\ fed_pc' = "rs_store"

\* an exception leaves register_sync: to the caller, or to the except clause
\* of sync_batch (line 140)
RegisterRaises(exc) ==
    /\ call' = NoCall
    /\ IF call.in_batch
       THEN /\ fed_pc' = "sb_recover"
            /\ batch' = [batch EXCEPT !.only_malformed = FALSE]
            /\ UNCHANGED fed_ret
       ELSE /\ fed_pc' = "idle"
            /\ fed_ret' = FedRet("register_sync", "raised", exc, NoBatch)
            /\ UNCHANGED batch

\* register_sync returns None: to the caller, or to line 138 of sync_batch
RegisterReturns ==
    /\ call' = NoCall
    /\ IF call.in_batch
       THEN /\ fed_pc' = "sb_next"
            /\ batch' = [batch EXCEPT !.synced = @ + 1, !.i = @ + 1]
            /\ UNCHANGED fed_ret
       ELSE /\ fed_pc' = "idle"
            /\ fed_ret' = FedRet("register_sync", "returned", "", NoBatch)
            /\ UNCHANGED batch

\* a caller awaits register_sync(entry_id, source, target)
RegisterSyncCall ==
    /\ fed_up /\ fed_pc = "idle"
    /\ fed_clock + 2 <= MaxFedClock
    /\ \E entry_id \in EntryIds, source \in Repos, target \in Repos :
          /\ source # target
          /\ RegisterAppend(entry_id, source, target, FALSE)
    /\ fed_ret' = Pending
    /\ UNCHANGED <<fed_up, sync_file, batch, interrupted>>
    /\ UNCHANGED not_fed

\* lines 98-103: await self.omnilore_client.store(...) returns
RegisterStore ==
    /\ fed_up /\ fed_pc = "rs_store"
    /\ fed_pc' = "rs_save"
    /\ UNCHANGED <<fed_up, sync_history, sync_file, fed_clock, call, batch, fed_ret,
                   interrupted>>
    /\ UNCHANGED not_fed

\* lines 98-103: await self.omnilore_client.store(...) raises
RegisterStoreFails ==
    /\ fed_up /\ fed_pc = "rs_store"
    /\ RegisterRaises("ClientError")
    /\ UNCHANGED <<fed_up, sync_history, sync_file, fed_clock, interrupted>>
    /\ UNCHANGED not_fed

\* the retention trim applied to the ledger itself, not only to the copy
\* that is written
RegisterSave_trims ==
    /\ fed_up /\ fed_pc = "rs_save"
    /\ sync_file' = SavedSyncFile(sync_history, fed_clock + 1)
    /\ sync_history' = LastN(sync_history, SyncsKept)
    /\ fed_clock' = fed_clock + 1
    /\ RegisterReturns
    /\ UNCHANGED <<fed_up, interrupted>>
    /\ UNCHANGED not_fed

\* line 105: self._save_state() rewrites the file, then register_sync returns
RegisterSave ==
    /\ fed_up /\ fed_pc = "rs_save"
    /\ sync_file' = SavedSyncFile(sync_history, fed_clock + 1)
    /\ fed_clock' = fed_clock + 1
    /\ RegisterReturns
    /\ UNCHANGED <<fed_up, sync_history, interrupted>>
    /\ UNCHANGED not_fed

\* a rollback on the failed write: the event is taken out of memory again
RegisterSaveDenied_rollback ==
    /\ fed_up /\ fed_pc = "rs_save"
    /\ RegisterRaises("OSError")
    /\ sync_history' = SubSeq(sync_history, 1, Len(sync_history) - 1)
    /\ UNCHANGED <<fed_up, sync_file, fed_clock, interrupted>>
    /\ UNCHANGED not_fed

\* line 105: the file cannot be opened for writing; OSError leaves register_sync
RegisterSaveDenied ==
    /\ fed_up /\ fed_pc = "rs_save"
    /\ RegisterRaises("OSError")
    /\ UNCHANGED <<fed_up, sync_history, sync_file, fed_clock, interrupted>>
    /\ UNCHANGED not_fed

\* line 105: the write fails after open(..., "w") has truncated the file
\* (lines 66-75) and after the clock of line 69 was read: the file is left
\* unreadable, the process lives on, OSError leaves register_sync
RegisterSaveFails ==
    /\ fed_up /\ fed_pc = "rs_save"
    /\ sync_file' = CorruptSyncFile
    /\ fed_clock' = fed_clock + 1
    /\ RegisterRaises("OSError")
    /\ UNCHANGED <<fed_up, sync_history, interrupted>>
    /\ UNCHANGED not_fed

register_sync ==
    \/ RegisterSyncCall
    \/ RegisterStore
    \/ RegisterStoreFails
    \/ RegisterSave
    \/ RegisterSaveDenied
    \/ RegisterSaveFails

\* ---- sync_batch ----

\* a caller awaits sync_batch(entries, source, target): lines 125-132, up to
\* the await of the guidance query
SyncBatchCall ==
    /\ fed_up /\ fed_pc = "idle"
    /\ \E entries \in Batches, source \in Repos, target \in Repos :
          /\ source # target
          /\ fed_clock + 2 * Len(entries) + 1 <= MaxFedClock
          /\ batch' = [NoBatch EXCEPT !.entries = entries, !.source = source,
                                      !.target = target,
                                      !.before = Len(sync_history)]
    /\ fed_pc' = "sb_query"
    /\ fed_ret' = Pending
    /\ UNCHANGED <<fed_up, sync_history, sync_file, fed_clock, call, interrupted>>
    /\ UNCHANGED not_fed

\* sync_batch raises exc to its caller; b holds its locals at that point
BatchRaises(exc, b) ==
    /\ fed_pc' = "idle"
    /\ fed_ret' = FedRet("sync_batch", "raised", exc, b)
    /\ batch' = NoBatch

\* sync_batch returns its result dict
BatchReturns(b) ==
    /\ fed_pc' = "idle"
    /\ fed_ret' = FedRet("sync_batch", "returned", "", b)
    /\ batch' = NoBatch

\* the collaborator failed: from here on not only malformed entries have failed
ClientFailed(b) == [b EXCEPT !.only_malformed = FALSE]

\* lines 130-132: the guidance query returns (its text only feeds the text
\* stored at line 162, guidance[:100]) or raises
BatchGuidance ==
    /\ fed_up /\ fed_pc = "sb_query"
    /\ \E outcome \in QueryOutcomes :
          IF outcome = "raises"
          THEN BatchRaises("ClientError", ClientFailed(batch))
          ELSE /\ fed_pc' = "sb_next"
               /\ UNCHANGED <<batch, fed_ret>>
    /\ UNCHANGED <<fed_up, sync_history, sync_file, fed_clock, call, interrupted>>
    /\ UNCHANGED not_fed

\* lines 134-137: the next entry has an id; register_sync is entered
BatchRegister ==
    /\ fed_up /\ fed_pc = "sb_next"
    /\ batch.i <= Len(batch.entries)
    /\ batch.entries[batch.i].has_id
    /\ RegisterAppend(batch.entries[batch.i].id, batch.source, batch.target, TRUE)
    /\ UNCHANGED <<fed_up, sync_file, batch, fed_ret, interrupted>>
    /\ UNCHANGED not_fed

\* lines 134-140: entry["id"] raises KeyError, caught by the except clause
BatchMalformed ==
    /\ fed_up /\ fed_pc = "sb_next"
    /\ batch.i <= Len(batch.entries)
    /\ ~batch.entries[batch.i].has_id
    /\ fed_pc' = "sb_recover"
    /\ UNCHANGED <<fed_up, sync_history, sync_file, fed_clock, call, batch, fed_ret, interrupted>>
    /\ UNCHANGED not_fed

\* lines 142-144: the recovery query raises out of sync_batch, answers
\* nothing (the error is counted, lines 145 and 152) or answers a text, which
\* is stored next
BatchRecover ==
    /\ fed_up /\ fed_pc = "sb_recover"
    /\ \E outcome \in QueryOutcomes :
          CASE outcome = "raises" -> BatchRaises("ClientError", ClientFailed(batch))
            [] outcome = "empty" ->
                  /\ batch' = [batch EXCEPT !.errors = @ + 1, !.i = @ + 1]
                  /\ fed_pc' = "sb_next"
                  /\ UNCHANGED fed_ret
            [] outcome = "text" ->
                  /\ fed_pc' = "sb_recover_store"
                  /\ UNCHANGED <<batch, fed_ret>>
    /\ UNCHANGED <<fed_up, sync_history, sync_file, fed_clock, call, interrupted>>
    /\ UNCHANGED not_fed

\* lines 146-152: the store of the recovery text returns and the error is
\* counted, or raises out of sync_batch
BatchRecoverStore ==
    /\ fed_up /\ fed_pc = "sb_recover_store"
    /\ \E stored \in StoreOutcomes :
          IF stored = "raises"
          THEN BatchRaises("ClientError", ClientFailed(batch))
          ELSE /\ batch' = [batch EXCEPT !.errors = @ + 1, !.i = @ + 1]
               /\ fed_pc' = "sb_next"
               /\ UNCHANGED fed_ret
    /\ UNCHANGED <<fed_up, sync_history, sync_file, fed_clock, call, interrupted>>
    /\ UNCHANGED not_fed

\* lines 155-174: the loop is over; the batch is stored and the result returned
BatchFinish ==
    /\ fed_up /\ fed_pc = "sb_next"
    /\ batch.i > Len(batch.entries)
    /\ \E outcome \in StoreOutcomes :
          IF outcome = "raises"
          THEN BatchRaises("ClientError", ClientFailed(batch)) /\ UNCHANGED fed_clock
          ELSE BatchReturns(batch) /\ fed_clock' = fed_clock + 1
    /\ UNCHANGED <<fed_up, sync_history, sync_file, call, interrupted>>
    /\ UNCHANGED not_fed

sync_batch ==
    \/ SyncBatchCall
    \/ BatchGuidance
    \/ BatchRegister
    \/ BatchMalformed
    \/ BatchRecover
    \/ BatchRecoverStore
    \/ BatchFinish

\* ---- get_sync_stats ----

\* a slip in the pattern: every event that names "omnilore" at all is counted
CountDirection_any(history, source, target) ==
    Cardinality({i \in DOMAIN history :
                    source \in {history[i].direction[1], history[i].direction[2]}})

\* lines 186-197: sum(1 for s in self.sync_history if pattern in s["direction"]),
\* the pattern being f"{source} -> {target}"
CountDirection(history, source, target) ==
    Cardinality({i \in DOMAIN history : history[i].direction = <<source, target>>})

\* the dict get_sync_stats returns for a ledger
get_sync_stats(history) ==
    IF history = <<>>
    THEN NoStats
    ELSE [total_syncs |-> Len(history),
          omnilore_to_oxproxion |-> CountDirection(history, "omnilore", "oxproxion"),
          oxproxion_to_omnilore |-> CountDirection(history, "oxproxion", "omnilore"),
          last_sync |-> <<history[Len(history)].timestamp>>]

\* what the actions of the get_sync_stats task leave alone
not_stats == <<vars_res, vars_order, vars_orch, vars_fed, vars_pair, vars_exp>>

\* A task awaits get_sync_stats(), once, while the other task of the service
\* is idle or suspended at one of its awaits.  Lines 178-184: an empty ledger
\* returns at once.
GetSyncStatsEmpty ==
    /\ fed_up /\ stats_call = NoStatsCall
    /\ sync_history = <<>>
    /\ stats_call' = [pc |-> "idle", stats |-> get_sync_stats(sync_history),
                      outcome |-> "returned"]
    /\ UNCHANGED not_stats

\* lines 186-211: the dict is computed from the ledger as it is now, then the
\* coroutine awaits the store of it
GetSyncStatsCall ==
    /\ fed_up /\ stats_call = NoStatsCall
    /\ sync_history # <<>>
    /\ stats_call' = [pc |-> "store", stats |-> get_sync_stats(sync_history),
                      outcome |-> "pending"]
    /\ UNCHANGED not_stats

\* lines 211-218: the store returns and the dict computed before the await is
\* returned, or the store raises and get_sync_stats ends with its exception
GetSyncStatsStore ==
    /\ fed_up /\ stats_call.pc = "store"
    /\ \E outcome \in StoreOutcomes :
          stats_call' = IF outcome = "ok"
                        THEN [stats_call EXCEPT !.pc = "idle", !.outcome = "returned"]
                        ELSE [NoStatsCall EXCEPT !.outcome = "raised"]
    /\ UNCHANGED not_stats

GetSyncStats == GetSyncStatsEmpty \/ GetSyncStatsCall \/ GetSyncStatsStore

\* ---- the process ----

\* The process dies.  Memory is lost; the file is what the last completed
\* _save_state left.
Crash ==
    /\ fed_up
    /\ fed_up' = FALSE
    /\ sync_history' = <<>>
    /\ fed_pc' = "down"
    /\ call' = NoCall
    /\ batch' = NoBatch
    /\ interrupted' = IF fed_pc \in {"rs_store", "rs_save"}
                      THEN interrupted \cup {call.timestamp}
                      ELSE interrupted
    /\ fed_ret' = FedRet("crash", "raised", "", NoBatch)
    /\ UNCHANGED <<sync_file, fed_clock>>
    /\ UNCHANGED not_fed

\* The process dies inside _save_state, after open(..., "w") truncated the file.
CrashInSave ==
    /\ fed_up /\ fed_pc = "rs_save"
    /\ fed_up' = FALSE
    /\ sync_history' = <<>>
    /\ fed_pc' = "down"
    /\ call' = NoCall
    /\ batch' = NoBatch
    /\ sync_file' = CorruptSyncFile
    /\ interrupted' = interrupted \cup {call.timestamp}
    /\ fed_ret' = FedRet("crash", "raised", "", NoBatch)
    /\ UNCHANGED fed_clock
    /\ UNCHANGED not_fed

\* A new process constructs the service: __init__ and _load_state.  json.load
\* raises on a corrupt file and no service is constructed.
RestartFed ==
    /\ ~fed_up
    /\ fed_ret.op = "crash"
    /\ fed_up' = (sync_file.state # "corrupt")
    /\ sync_history' = LoadedSyncs(sync_file)
    /\ fed_pc' = IF sync_file.state # "corrupt" THEN "idle" ELSE "down"
    /\ fed_ret' = IF sync_file.state # "corrupt"
                  THEN FedRet("init", "returned", "", NoBatch)
                  ELSE FedRet("init", "raised", "JSONDecodeError", NoBatch)
    /\ UNCHANGED <<sync_file, fed_clock, call, batch, interrupted>>
    /\ UNCHANGED not_fed

\* ---- two callers of sync_batch ----
\*
\* Two coroutines run sync_batch at the same time on one state file and
\* interleave at every await.  Caller 1 calls the service object of
\* sync_history; caller 2 calls the same object, or a second object that was
\* constructed on the same state_file and has its own sync_history.  The
\* steps are those of sync_batch and register_sync above, taken by caller t.

\* the object caller t calls is the one that owns sync_history
OnFirstObject(t) == t = 1 \/ peer_shares

\* self.sync_history as caller t's call sees it
Ledger(t) == IF OnFirstObject(t) THEN sync_history ELSE peer_history

\* InitFed for the two objects, before either caller has called
InitPair ==
    /\ sync_file \in InitialSyncFiles
    /\ fed_up = TRUE
    /\ sync_history = LoadedSyncs(sync_file)
    /\ fed_clock = 0
    /\ fed_pc = "idle"
    /\ call = NoCall
    /\ batch = NoBatch
    /\ fed_ret = FedRet("init", "returned", "", NoBatch)
    /\ interrupted = {}
    /\ stats_call = NoStatsCall
    /\ peer_shares \in BOOLEAN
    /\ peer_history = IF peer_shares THEN <<>> ELSE LoadedSyncs(sync_file)
    /\ co_pc = [t \in Callers |-> "idle"]
    /\ co_call = [t \in Callers |-> NoCall]
    /\ co_batch = [t \in Callers |-> NoCoBatch]
    /\ co_ret = [t \in Callers |-> "pending"]
    /\ registered = {}

\* what a step of the two callers leaves alone
CoFrame == UNCHANGED <<fed_up, fed_pc, call, batch, fed_ret, interrupted, peer_shares>>
           /\ UNCHANGED <<vars_res, vars_order, vars_orch, stats_call, vars_exp>>

\* sync_batch ends for caller t, by returning or by raising; its locals are gone
CoEnds(t, outcome) ==
    /\ co_pc' = [co_pc EXCEPT ![t] = "done"]
    /\ co_ret' = [co_ret EXCEPT ![t] = outcome]
    /\ co_batch' = [co_batch EXCEPT ![t] = NoCoBatch]

\* the batches caller t passes: entries of its own ("e1" for caller 1, "e2"
\* for caller 2) and malformed ones
CoBatches(t) ==
    {b \in Batches :
        \A i \in DOMAIN b : b[i].has_id => b[i].id = (IF t = 1 THEN "e1" ELSE "e2")}

\* caller t awaits sync_batch(entries, source, target) while the other call
\* has not ended (the two calls overlap); caller 1 syncs omnilore to
\* oxproxion and caller 2 the other way: lines 125-132
CoSyncBatchCall(t) ==
    /\ co_pc[t] = "idle"
    /\ \A u \in Callers : co_pc[u] # "done"
    /\ \E entries \in CoBatches(t) :
          /\ fed_clock + 2 * Len(entries) + 1 <= MaxFedClock
          /\ co_batch' = [co_batch EXCEPT ![t] =
                [NoCoBatch EXCEPT !.entries = entries,
                    !.source = IF t = 1 THEN "omnilore" ELSE "oxproxion",
                    !.target = IF t = 1 THEN "oxproxion" ELSE "omnilore"]]
    /\ co_pc' = [co_pc EXCEPT ![t] = "sb_query"]
    /\ UNCHANGED <<sync_history, sync_file, fed_clock, peer_history, co_call, co_ret,
                   registered>>
    /\ CoFrame

\* lines 130-132: the guidance query returns or raises
CoGuidance(t) ==
    /\ co_pc[t] = "sb_query"
    /\ \E outcome \in {"text", "raises"} :
          IF outcome = "raises"
          THEN CoEnds(t, "raised")
          ELSE co_pc' = [co_pc EXCEPT ![t] = "sb_next"] /\ UNCHANGED <<co_ret, co_batch>>
    /\ UNCHANGED <<sync_history, sync_file, fed_clock, peer_history, co_call, registered>>
    /\ CoFrame

\* lines 134-137 and 89-95: the next entry has an id; register_sync appends
\* the event to the ledger of the caller's object and awaits store
CoRegister(t) ==
    /\ co_pc[t] = "sb_next"
    /\ co_batch[t].i <= Len(co_batch[t].entries)
    /\ co_batch[t].entries[co_batch[t].i].has_id
    /\ LET ev == SyncEvent(fed_clock + 1, co_batch[t].entries[co_batch[t].i].id,
                            co_batch[t].source, co_batch[t].target)
       IN  /\ IF OnFirstObject(t)
              THEN sync_history' = AppendEvent(sync_history, ev) /\ UNCHANGED peer_history
              ELSE peer_history' = AppendEvent(peer_history, ev) /\ UNCHANGED sync_history
           /\ co_call' = [co_call EXCEPT ![t] =
                 [timestamp |-> ev.timestamp, entry_id |-> ev.entry_id,
                  source |-> co_batch[t].source, target |-> co_batch[t].target,
                  in_batch |-> TRUE]]
    /\ fed_clock' = fed_clock + 1
    /\ co_pc' = [co_pc EXCEPT ![t] = "rs_store"]
    /\ UNCHANGED <<sync_file, co_batch, co_ret, registered>>
    /\ CoFrame

\* lines 98-103: the store call of register_sync returns and the call goes
\* on to line 105, or it raises: register_sync ends with the exception, in
\* the except clause of sync_batch
CoStore(t) ==
    /\ co_pc[t] = "rs_store"
    /\ \E outcome \in StoreOutcomes :
          IF outcome = "ok"
          THEN /\ co_pc' = [co_pc EXCEPT ![t] = "rs_save"]
               /\ UNCHANGED co_call
          ELSE /\ co_pc' = [co_pc EXCEPT ![t] = "sb_recover"]
               /\ co_call' = [co_call EXCEPT ![t] = NoCall]
    /\ UNCHANGED <<sync_history, sync_file, fed_clock, peer_history, co_batch,
                   co_ret, registered>>
    /\ CoFrame

\* line 105: _save_state rewrites the file from the ledger of the caller's
\* object and register_sync returns; or the file cannot be opened; or the
\* write fails after the file was truncated and the clock read
CoSave(t) ==
    /\ co_pc[t] = "rs_save"
    /\ \E outcome \in {"ok", "denied", "fails"} :
          CASE outcome = "ok" ->
                  /\ sync_file' = SavedSyncFile(Ledger(t), fed_clock + 1)
                  /\ fed_clock' = fed_clock + 1
                  /\ co_batch' = [co_batch EXCEPT ![t].synced = @ + 1, ![t].i = @ + 1]
                  /\ registered' = registered \cup
                        {SyncEvent(co_call[t].timestamp, co_call[t].entry_id,
                                   co_call[t].source, co_call[t].target)}
                  /\ co_pc' = [co_pc EXCEPT ![t] = "sb_next"]
            [] outcome = "denied" ->
                  /\ co_pc' = [co_pc EXCEPT ![t] = "sb_recover"]
                  /\ UNCHANGED <<sync_file, fed_clock, co_batch, registered>>
            [] outcome = "fails" ->
                  /\ sync_file' = CorruptSyncFile
                  /\ fed_clock' = fed_clock + 1
                  /\ co_pc' = [co_pc EXCEPT ![t] = "sb_recover"]
                  /\ UNCHANGED <<co_batch, registered>>
    /\ co_call' = [co_call EXCEPT ![t] = NoCall]
    /\ UNCHANGED <<sync_history, peer_history, co_ret>>
    /\ CoFrame

\* lines 134-140: entry["id"] raises KeyError, caught by the except clause
CoMalformed(t) ==
    /\ co_pc[t] = "sb_next"
    /\ co_batch[t].i <= Len(co_batch[t].entries)
    /\ ~co_batch[t].entries[co_batch[t].i].has_id
    /\ co_pc' = [co_pc EXCEPT ![t] = "sb_recover"]
    /\ UNCHANGED <<sync_history, sync_file, fed_clock, peer_history, co_call, co_batch,
                   co_ret, registered>>
    /\ CoFrame

\* lines 142-144: the recovery query raises out of sync_batch, answers
\* nothing (the error is counted, lines 145 and 152) or answers a text, which
\* is stored next
CoRecover(t) ==
    /\ co_pc[t] = "sb_recover"
    /\ \E outcome \in QueryOutcomes :
          CASE outcome = "raises" -> CoEnds(t, "raised")
            [] outcome = "empty" ->
                  /\ co_batch' = [co_batch EXCEPT ![t].errors = @ + 1, ![t].i = @ + 1]
                  /\ co_pc' = [co_pc EXCEPT ![t] = "sb_next"]
                  /\ UNCHANGED co_ret
            [] outcome = "text" ->
                  /\ co_pc' = [co_pc EXCEPT ![t] = "sb_recover_store"]
                  /\ UNCHANGED <<co_batch, co_ret>>
    /\ UNCHANGED <<sync_history, sync_file, fed_clock, peer_history, co_call, registered>>
    /\ CoFrame

\* lines 146-152: the store of the recovery text returns and the error is
\* counted, or raises out of sync_batch
CoRecoverStore(t) ==
    /\ co_pc[t] = "sb_recover_store"
    /\ \E stored \in StoreOutcomes :
          IF stored = "raises"
          THEN CoEnds(t, "raised")
          ELSE /\ co_batch' = [co_batch EXCEPT ![t].errors = @ + 1, ![t].i = @ + 1]
               /\ co_pc' = [co_pc EXCEPT ![t] = "sb_next"]
               /\ UNCHANGED co_ret
    /\ UNCHANGED <<sync_history, sync_file, fed_clock, peer_history, co_call, registered>>
    /\ CoFrame

\* lines 155-174: the loop is over; the batch is stored and the result returned
CoFinish(t) ==
    /\ co_pc[t] = "sb_next"
    /\ co_batch[t].i > Len(co_batch[t].entries)
    /\ \E outcome \in StoreOutcomes :
          IF outcome = "raises"
          THEN CoEnds(t, "raised") /\ UNCHANGED fed_clock
          ELSE CoEnds(t, "returned") /\ fed_clock' = fed_clock + 1
    /\ UNCHANGED <<sync_history, sync_file, peer_history, co_call, registered>>
    /\ CoFrame

co_sync_batch(t) ==
    \/ CoSyncBatchCall(t)
    \/ CoGuidance(t)
    \/ CoRegister(t)
    \/ CoStore(t)
    \/ CoSave(t)
    \/ CoMalformed(t)
    \/ CoRecover(t)
    \/ CoRecoverStore(t)
    \/ CoFinish(t)

NextResolve == resolve \/ AuditTaskEnds

\* resolve applied to the pairs of three entries
NextOrder == ResolvePair

InitOrderOnly == InitOrder /\ QuietOrch /\ QuietFed /\ QuietExport

SpecOrder == InitOrderOnly /\ [][NextOrder]_vars

InitResolveOnly == InitResolve /\ QuietOrch /\ QuietFed /\ QuietExport

SpecResolve == InitResolveOnly /\ [][NextResolve]_vars

NextRouter == select_agent \/ ConfigurePool \/ SetUnavailable \/ solve_problem

InitRouter == InitOrch /\ QuietResolve /\ QuietFed /\ QuietExport

SpecRouter == InitRouter /\ [][NextRouter]_vars

\* two concurrent sync_batch calls on one state file
NextSyncPair == \E t \in Callers : co_sync_batch(t)

InitSyncPair == InitPair /\ QuietResolve /\ QuietOrch /\ QuietExport

SpecSyncPair == InitSyncPair /\ [][NextSyncPair]_vars

\* the orchestrator over restarts of its process
NextOrch == select_agent \/ SetUnavailable \/ solve_problem \/ GetOrchestrationStats \/ Restart

InitOrchOnly == InitOrch /\ QuietResolve /\ QuietFed /\ QuietExport

SpecOrch == InitOrchOnly /\ [][NextOrch]_vars

\* One process of the orchestrator under solve calls alone, with agents
\* going down in between; long enough for two saved solutions.
MaxSolveClock == 6

NextSolve ==
    \/ SolveRoutingFails
    \/ SetAgentUnavailable
    \/ \E ptype \in ProblemTypes :
          \/ SolveSavedBy(ptype, MaxSolveClock)
          \/ SolveWriteDeniedBy(ptype, MaxSolveClock)
          \/ SolveWriteFailsBy(ptype, MaxSolveClock)

InitSolve == InitOrch /\ QuietResolve /\ QuietFed /\ QuietExport

SpecSolve == InitSolve /\ [][NextSolve]_vars

\* The exporter under one export_batch call.
NextExport == export_batch \/ OtherTaskExports

InitExportOnly == InitExport /\ QuietResolve /\ QuietOrch /\ QuietFed

SpecExport == InitExportOnly /\ [][NextExport]_vars

\* The router under select_agent calls, with agents going down in between
\* and its statistics read at any point.
NextRouting == select_agent \/ SetAgentUnavailable \/ GetRoutingStats

InitRouting == InitOrch /\ QuietResolve /\ QuietFed /\ QuietExport

SpecRouting == InitRouting /\ [][NextRouting]_vars

\* one caller, a collaborator and a file that may fail, no crash
NextSync == register_sync \/ sync_batch

InitSync == InitFed /\ QuietResolve /\ QuietOrch /\ QuietExport

SpecSync == InitSync /\ [][NextSync]_vars

\* The service with a second task that asks for the statistics while the
\* first registers syncs.
NextStats == register_sync \/ GetSyncStats

InitStats == InitFed /\ QuietResolve /\ QuietOrch /\ QuietExport

SpecStats == InitStats /\ [][NextStats]_vars

\* register_sync calls, crashes and restarts
NextSyncCrash == register_sync \/ Crash \/ CrashInSave \/ RestartFed

InitSyncCrash == InitFed /\ QuietResolve /\ QuietOrch /\ QuietExport

SpecSyncCrash == InitSyncCrash /\ [][NextSyncCrash]_vars

\* The exact statement "the confidences differ by more than 0.1".
DiffersByMoreThanTenth == 10 * Abs(omnilore_entry.confidence - oxproxion_entry.confidence) > ConfDen

\* C1: whenever resolve returns for two entries whose confidences differ by
\* more than 0.1, the returned entry is one of the two arguments and carries
\* the strictly higher confidence, whatever the two created_at values are.
C1_HigherConfidenceWins ==
    (resolved.status = "returned" /\ DiffersByMoreThanTenth) =>
        /\ resolved.selected \in {omnilore_entry, oxproxion_entry}
        /\ resolved.selected.confidence >= omnilore_entry.confidence
        /\ resolved.selected.confidence >= oxproxion_entry.confidence

\* C1 witness: resolve returned the higher-confidence second entry although
\* the first entry is the more recent one.
C1_Witness ==
    /\ resolved.status = "returned"
    /\ DiffersByMoreThanTenth
    /\ oxproxion_entry.confidence > omnilore_entry.confidence
    /\ TsValue(omnilore_entry.created_at) > TsValue(oxproxion_entry.created_at)
    /\ resolved.selected = oxproxion_entry

\* C2: whenever resolve returns for two entries whose confidences differ by
\* at most 0.1, the returned entry is the one with the later created_at, and
\* it is the first argument (entry_A) when both created_at are equal.
C2_MoreRecentWins ==
    (resolved.status = "returned" /\ ~DiffersByMoreThanTenth) =>
        /\ TsValue(omnilore_entry.created_at) > TsValue(oxproxion_entry.created_at)
                => resolved.selected = omnilore_entry
        /\ TsValue(oxproxion_entry.created_at) > TsValue(omnilore_entry.created_at)
                => resolved.selected = oxproxion_entry
        /\ omnilore_entry.created_at = oxproxion_entry.created_at
                => resolved.selected = omnilore_entry

\* C2 witness: the confidences differ (by less than 0.1), the lower-confidence
\* second entry is the later one and is returned.
C2_Witness ==
    /\ resolved.status = "returned"
    /\ ~DiffersByMoreThanTenth
    /\ omnilore_entry.confidence > oxproxion_entry.confidence
    /\ TsValue(oxproxion_entry.created_at) > TsValue(omnilore_entry.created_at)
    /\ resolved.selected = oxproxion_entry

----------------------------------------------------------------------------
(***************************************************************************)
(* Router and orchestrator properties                                      *)
(***************************************************************************)

NoneAvailable(pool) == \A i \in DOMAIN pool : ~pool[i].available

\* n names an available agent of the pool whose solving_capacity (the load
\* figure select_agent minimises) is minimal among the available agents, and
\* every available agent registered before it carries a strictly larger one.
IsFirstLeastLoaded(pool, n) ==
    \E i \in DOMAIN pool :
        /\ pool[i].name = n
        /\ pool[i].available
        /\ \A j \in DOMAIN pool :
              pool[j].available =>
                  /\ pool[i].solving_capacity <= pool[j].solving_capacity
                  /\ (j < i => pool[j].solving_capacity > pool[i].solving_capacity)

\* C4: select_agent with prefer_local=false on a pool with an available agent
\* returns an available agent of minimal load, the first-registered among
\* those of minimal load.  The pool fixes that agent uniquely, so repeated
\* calls on the same pool return the same agent.
C4_LeastLoadedFirstRegistered ==
    (orch_ret.op = "select_agent" /\ ~orch_ret.prefer_local /\ ~NoneAvailable(agent_pool)) =>
        /\ orch_ret.outcome = "returned"
        /\ IsFirstLeastLoaded(agent_pool, orch_ret.agent)

\* C4 witness: two available agents tie on the minimal load behind a more
\* loaded, earlier-registered one; the first of the two was returned.
C4_Witness ==
    /\ orch_ret.op = "select_agent" /\ ~orch_ret.prefer_local
    /\ orch_ret.outcome = "returned"
    /\ Len(agent_pool) >= 2
    /\ \E i, j \in DOMAIN agent_pool :
          /\ i < j
          /\ agent_pool[i].available /\ agent_pool[j].available
          /\ agent_pool[i].solving_capacity = agent_pool[j].solving_capacity
          /\ agent_pool[i].name = orch_ret.agent
    /\ Len(routing_history) >= 2

\* the first available agent in pool-iteration order
FirstAvailable(pool) == available(pool)[1].name

\* C5: select_agent with prefer_local=true returns the local agent
\* ("omnilore") when it is available, otherwise the first available agent in
\* pool order, and raises when no agent is available; it never returns an
\* unavailable agent.
C5_PreferLocalNeverUnavailable ==
    (orch_ret.op = "select_agent" /\ orch_ret.prefer_local) =>
        IF HasAgent(agent_pool, "omnilore") /\ AgentOf(agent_pool, "omnilore").available
        THEN orch_ret.outcome = "returned" /\ orch_ret.agent = "omnilore"
        ELSE IF ~NoneAvailable(agent_pool)
        THEN orch_ret.outcome = "returned" /\ orch_ret.agent = FirstAvailable(agent_pool)
        ELSE orch_ret.outcome = "raised"

\* C6: a select_agent call with prefer_local=false on an empty pool or a pool
\* with no available agent raises, returns no agent name and leaves the
\* routing history as it was.
C6_NoAgentIsAnError ==
    [][(orch_ret'.op = "select_agent" /\ ~orch_ret'.prefer_local /\ NoneAvailable(agent_pool)) =>
          /\ orch_ret'.outcome = "raised"
          /\ orch_ret'.agent = ""
          /\ routing_history' = routing_history]_vars

\* C6 witness: the call raised on a non-empty pool whose agents are all
\* unavailable, after earlier calls had been routed.
C6_Witness ==
    /\ orch_ret.op = "select_agent" /\ ~orch_ret.prefer_local
    /\ orch_ret.outcome = "raised"
    /\ agent_pool # <<>>
    /\ NoneAvailable(agent_pool)
    /\ routing_history # <<>>

\* C7: a solve that returns hands back a record whose solved_by is the agent
\* select_agent(problem_type, prefer_local=false) picks on the current pool
\* and whose status is SOLVED; the record is the last element of the solution
\* log and is in the persisted document.
C7_SolveRecordsAndPersists ==
    (orch_ret.op = "solve_problem" /\ orch_ret.outcome = "returned") =>
        /\ IsFirstLeastLoaded(agent_pool, orch_ret.record.solved_by)
        /\ orch_ret.record.status = "solved"
        /\ orch_ret.record.problem_type = orch_ret.problem_type
        /\ solutions # <<>>
        /\ solutions[Len(solutions)] = orch_ret.record
        /\ orch_file.state = "ok"
        /\ \E i \in DOMAIN orch_file.solutions : orch_file.solutions[i] = orch_ret.record

\* C7 witness: solve returned with more solutions in memory than the
\* document keeps, routed to the less loaded, later-registered agent.
C7_Witness ==
    /\ orch_ret.op = "solve_problem" /\ orch_ret.outcome = "returned"
    /\ Len(solutions) > SolutionsKept
    /\ Len(agent_pool) >= 2
    /\ agent_pool[1].available
    /\ orch_ret.record.solved_by = agent_pool[2].name

\* C8: a solve whose routing fails (no agent available) raises the routing
\* error to its caller, appends no solution, routes nothing and leaves the
\* persisted document as it was.
C8_FailedRouteSurfaces ==
    [][(orch_ret'.op = "solve_problem" /\ NoneAvailable(agent_pool)) =>
          /\ orch_ret'.outcome = "raised"
          /\ orch_ret'.exc = "RuntimeError"
          /\ solutions' = solutions
          /\ routing_history' = routing_history
          /\ orch_file' = orch_file]_vars

\* C8 witness: solve raised the routing error after an earlier solve of this
\* run had been saved.
C8_Witness ==
    /\ orch_ret.op = "solve_problem"
    /\ orch_ret.outcome = "raised" /\ orch_ret.exc = "RuntimeError"
    /\ orch_file.state = "ok" /\ orch_file.last_updated > 0
    /\ solutions # <<>>

----------------------------------------------------------------------------
(***************************************************************************)
(* Sync ledger properties                                                  *)
(***************************************************************************)

\* what the code does for malformed entries: in a sync_batch call in which
\* nothing but the malformed entries has failed (no collaborator call raised,
\* no register_sync failed), the call returns synced = N - K and errors = K
MalformedOnlyCounts ==
    (fed_ret.op = "sync_batch" /\ fed_ret.result.only_malformed) =>
        /\ fed_ret.outcome = "returned"
        /\ fed_ret.result.synced = fed_ret.result.entries - fed_ret.result.malformed
        /\ fed_ret.result.errors = fed_ret.result.malformed

\* C3: a sync_batch over N entries of which K are malformed never raises and
\* returns synced = N - K and errors = K, for every N, every K <= N and
\* wherever the malformed entries stand in the batch.
C3_BatchCountsMalformed ==
    fed_ret.op = "sync_batch" =>
        /\ fed_ret.outcome = "returned"
        /\ fed_ret.result.synced = fed_ret.result.entries - fed_ret.result.malformed
        /\ fed_ret.result.errors = fed_ret.result.malformed

\* the step in which a register_sync invocation returns without error, to a
\* direct caller or to sync_batch
RegisterSyncReturned ==
    /\ fed_pc = "rs_save"
    /\ \/ fed_pc' = "idle" /\ fed_ret'.op = "register_sync" /\ fed_ret'.outcome = "returned"
       \/ fed_pc' = "sb_next" /\ batch'.synced = batch.synced + 1

Min(a, b) == IF a <= b THEN a ELSE b

\* doc holds the most recent min(SyncsKept, n) events of ledger, in append order
HoldsMostRecent(doc, ledger) ==
    /\ doc.state = "ok"
    /\ Len(doc.syncs) = Min(SyncsKept, Len(ledger))
    /\ \A k \in DOMAIN doc.syncs :
          doc.syncs[k] = ledger[Len(ledger) - Len(doc.syncs) + k]

\* C9: when a register_sync call returns successfully, the event list of the
\* persisted document is the most recent min(100, n) events of the in-memory
\* ledger in append order, and its last element is the event just registered.
C9_PersistedReflectsLedger ==
    [][RegisterSyncReturned =>
          /\ HoldsMostRecent(sync_file', sync_history')
          /\ sync_file'.syncs # <<>>
          /\ sync_file'.syncs[Len(sync_file'.syncs)] =
                [timestamp |-> call.timestamp, entry_id |-> call.entry_id,
                 direction |-> <<call.source, call.target>>]]_vars

\* C9 witness: register_sync returned with more events in memory than the
\* document keeps, after an earlier call of this run had failed to persist.
C9_Witness ==
    /\ fed_pc = "idle"
    /\ fed_ret.op = "register_sync" /\ fed_ret.outcome = "returned"
    /\ Len(sync_history) > SyncsKept
    /\ Len(sync_file.syncs) = SyncsKept
    /\ sync_file.syncs[SyncsKept - 1].timestamp > 0

\* C10: over register_sync calls, crashes and restarts, no invocation has more
\* than one event in the persisted ledger, an invocation that a crash cut
\* short between its append and its persist has none, and the ledger loaded
\* in memory holds no invocation's event twice.  An invocation is named by
\* the clock reading it took, 1..MaxFedClock.
C10_AtMostOnce ==
    /\ \A t \in 1..MaxFedClock :
          /\ Cardinality({i \in DOMAIN sync_file.syncs : sync_file.syncs[i].timestamp = t}) <= 1
          /\ Cardinality({i \in DOMAIN sync_history : sync_history[i].timestamp = t}) <= 1
    /\ \A i \in DOMAIN sync_file.syncs : sync_file.syncs[i].timestamp \notin interrupted

\* C10 witness: the service runs again after a crash that cut one invocation
\* short, with an event of another invocation of this run loaded from the file.
C10_Witness ==
    /\ fed_up /\ fed_ret.op = "init"
    /\ interrupted # {}
    /\ \E i \in DOMAIN sync_history : sync_history[i].timestamp > 0
    /\ \A i \in DOMAIN sync_history : sync_history[i].timestamp \notin interrupted

\* the step in which _save_state fails inside register_sync: the coroutine
\* leaves line 105 with the process alive, and the file is as it was (open
\* failed) or unreadable (the write failed after open had truncated it)
PersistFailed ==
    /\ fed_pc = "rs_save" /\ fed_pc' # "rs_save"
    /\ fed_up'
    /\ sync_file' = sync_file \/ sync_file' = CorruptSyncFile

\* C11: when the state file cannot be written, register_sync fails with an
\* error (to its caller, or to the except clause of sync_batch when the batch
\* made the call), and the event it created is the last element of the
\* in-memory ledger.
C11_PersistFailureKeepsEvent ==
    [][PersistFailed =>
          /\ IF call.in_batch
             THEN fed_pc' = "sb_recover"
             ELSE fed_ret'.op = "register_sync" /\ fed_ret'.outcome = "raised"
          /\ sync_history' # <<>>
          /\ sync_history'[Len(sync_history')] =
                [timestamp |-> call.timestamp, entry_id |-> call.entry_id,
                 direction |-> <<call.source, call.target>>]]_vars

\* C11 witness: a direct register_sync call has failed with OSError; its
\* event ends the in-memory ledger and is not in the file.
C11_Witness ==
    /\ fed_pc = "idle"
    /\ fed_ret.op = "register_sync" /\ fed_ret.outcome = "raised"
    /\ fed_ret.exc = "OSError"
    /\ sync_history # <<>>
    /\ sync_history[Len(sync_history)].timestamp = fed_clock
    /\ \A i \in DOMAIN sync_file.syncs : sync_file.syncs[i].timestamp # fed_clock

\* C12: a failure of the collaborator's store call does not abort
\* register_sync: no register_sync call ends by raising the collaborator's
\* error, and every event in memory whose call has ended is in the persisted
\* document.
C12_StoreFailureDoesNotAbort ==
    /\ ~(fed_ret.op = "register_sync" /\ fed_ret.outcome = "raised"
         /\ fed_ret.exc = "ClientError")
    /\ (fed_pc = "idle" /\ fed_ret.op = "register_sync" /\ fed_ret.exc # "OSError") =>
          /\ sync_file.state = "ok"
          /\ sync_file.syncs # <<>>
          /\ sync_file.syncs[Len(sync_file.syncs)] = sync_history[Len(sync_history)]

\* C14: in register_sync the append and the persist form one step with no
\* collaborator call in between: while the store call of register_sync is
\* pending, the ledger holds no event that is appended but not persisted.
C14_NoExternalCallBetweenAppendAndPersist ==
    fed_pc = "rs_store" =>
        \A i \in DOMAIN sync_history :
            sync_history[i].timestamp = call.timestamp =>
                \E j \in DOMAIN sync_file.syncs : sync_file.syncs[j] = sync_history[i]

\* s is a prefix of t
IsPrefix(s, t) == Len(s) <= Len(t) /\ SubSeq(t, 1, Len(s)) = s

\* C15: the ledger is append-only in memory: over every step of
\* register_sync, sync_batch and the persist (and of get_sync_stats, under
\* SpecStats), the ledger
\* before is a prefix of the ledger after; an event leaves the persisted copy
\* that a completed write leaves only by the retention trim, when the ledger
\* is longer than the copy keeps, and it stays in memory.  (A write that
\* fails after truncating the file leaves no readable copy; the ledger in
\* memory is untouched by it.)
C15_LedgerAppendOnly ==
    [][/\ IsPrefix(sync_history, sync_history')
       /\ (sync_file' # sync_file /\ sync_file'.state = "ok") =>
             \A i \in DOMAIN sync_file.syncs :
                (\A j \in DOMAIN sync_file'.syncs : sync_file'.syncs[j] # sync_file.syncs[i]) =>
                    /\ Len(sync_history') > SyncsKept
                    /\ \E k \in DOMAIN sync_history' : sync_history'[k] = sync_file.syncs[i]
      ]_vars

\* C15 witness: sync_batch has returned on a ledger that is longer than the
\* persisted copy, whose oldest loaded event the trim has dropped from the
\* file.
C15_Witness ==
    /\ fed_ret.op = "sync_batch" /\ fed_ret.outcome = "returned"
    /\ Len(sync_history) = SyncsKept + 1
    /\ Len(sync_file.syncs) = SyncsKept
    /\ sync_file.syncs[SyncsKept] = sync_history[SyncsKept + 1]
    /\ sync_file.syncs[1] = sync_history[2]

\* the stats of a ledger after one more register_sync call from source to target
\* at time now
StatsAfterCall(st, source, target, now) ==
    [total_syncs |-> st.total_syncs + 1,
     omnilore_to_oxproxion |->
         st.omnilore_to_oxproxion + (IF source = "omnilore" THEN 1 ELSE 0),
     oxproxion_to_omnilore |->
         st.oxproxion_to_omnilore + (IF source = "oxproxion" THEN 1 ELSE 0),
     last_sync |-> <<now>>]

\* C16: get_sync_stats on an empty ledger returns total 0, both direction
\* counts 0 and no last_sync; every register_sync call adds one to the total
\* and to the count of its direction and makes its timestamp the last_sync, no
\* other step changes the stats, and what get_sync_stats returns is the stats
\* of the ledger it was called on -- so after m calls A-to-B and k calls
\* B-to-A on an empty ledger it returns m+k, m, k and the timestamp of the
\* last appended event.
C16_SyncStatsCount ==
    /\ [][(stats_call.pc = "idle" /\ stats_call' # stats_call) =>
            /\ stats_call'.stats = get_sync_stats(sync_history)
            /\ sync_history = <<>> =>
                  /\ stats_call'.outcome = "returned"
                  /\ stats_call'.stats =
                        [total_syncs |-> 0, omnilore_to_oxproxion |-> 0,
                         oxproxion_to_omnilore |-> 0, last_sync |-> <<>>]]_vars
    /\ [][(stats_call.pc = "store" /\ stats_call'.outcome = "returned") =>
            stats_call'.stats = stats_call.stats]_vars
    /\ [][IF fed_pc # "rs_store" /\ fed_pc' = "rs_store"
          THEN get_sync_stats(sync_history') =
                  StatsAfterCall(get_sync_stats(sync_history),
                                 call'.source, call'.target, call'.timestamp)
          ELSE get_sync_stats(sync_history') = get_sync_stats(sync_history)]_vars

\* C16 witness: after one call in each direction on an empty ledger,
\* get_sync_stats has returned 2, 1, 1 and the timestamp of the second event.
C16_Witness ==
    /\ stats_call.outcome = "returned"
    /\ fed_pc = "idle"
    /\ Len(sync_history) = 2
    /\ stats_call.stats.total_syncs = 2
    /\ stats_call.stats.omnilore_to_oxproxion = 1
    /\ stats_call.stats.oxproxion_to_omnilore = 1
    /\ stats_call.stats.last_sync = <<sync_history[2].timestamp>>

----------------------------------------------------------------------------
(***************************************************************************)
(* Orchestrator statistics and restarts                                    *)
(***************************************************************************)

\* C17: get_orchestration_stats returns success_rate equal to the number of
\* solution records with status "solved" divided by the number of solution
\* records, and 0.0 without a division when the solution log is empty.
C17_SuccessRate ==
    (orch_ret.op = "get_orchestration_stats") =>
        /\ orch_ret.outcome = "returned"
        /\ IF solutions = <<>>
           THEN orch_ret.stats.success_rate = <<0, 1>> /\ ~orch_ret.stats.divided
           ELSE /\ orch_ret.stats.success_rate[2] # 0
                /\ orch_ret.stats.success_rate[1] * Len(solutions) =
                      orch_ret.stats.success_rate[2] *
                         Cardinality({i \in DOMAIN solutions : solutions[i].status = "solved"})

\* C17 witness: the stats were returned on a log longer than the file keeps,
\* whose newest record this run has added.
C17_Witness ==
    /\ orch_ret.op = "get_orchestration_stats"
    /\ Len(solutions) > SolutionsKept
    /\ solutions[Len(solutions)].timestamp > 0
    /\ orch_ret.stats.success_rate = <<Len(solutions), Len(solutions)>>

\* C18: after a restart the routing history is the most recent min(100, n)
\* routing records appended before the restart, when the last save covered
\* all of them.
C18_RoutingHistorySurvivesRestart ==
    [][(/\ orch_ret'.op = "init" /\ orch_ret'.outcome = "returned"
        /\ orch_file.state = "ok"
        /\ orch_file.router_stats.total_routed = Len(routing_history)) =>
          /\ routing_history' = LastN(routing_history, SolutionsKept)
          /\ get_routing_stats(routing_history').total_routed =
                IF Len(routing_history) <= SolutionsKept
                THEN Len(routing_history) ELSE SolutionsKept]_vars

----------------------------------------------------------------------------
(***************************************************************************)
(* The resolver and its collaborator                                       *)
(***************************************************************************)

\* C19: the audit write never blocks or fails the resolution: once resolve
\* has ended it has returned the winner of the two entries, whether the store
\* call succeeds, raises, never completes, or no collaborator is configured.
C19_AuditNeverFailsResolve ==
    resolved.status # "pending" =>
        /\ resolved.status = "returned"
        /\ resolved.selected = selected(omnilore_entry, oxproxion_entry)

\* C20: the winner relation of resolve is transitive: if resolve(X, Y)
\* returns X and resolve(Y, Z) returns Y, then resolve(X, Z) returns X.
C20_WinnerTransitive ==
    (/\ Len(winners) = 3
     /\ winners[1] = omnilore_entry
     /\ winners[2] = oxproxion_entry) => winners[3] = omnilore_entry

----------------------------------------------------------------------------
(***************************************************************************)
(* Two concurrent sync_batch calls                                         *)
(***************************************************************************)

\* every event whose register_sync returned without error is in the
\* persisted document
RegisteredArePersisted ==
    \A e \in registered : \E j \in DOMAIN sync_file.syncs : sync_file.syncs[j] = e

\* C13: two sync_batch calls that run concurrently against the same state
\* file lose no update: once both have ended, every event that either call
\* registered successfully is in the persisted document (a document that a
\* failed write left unreadable is set aside: that loss is the disk's).
C13_NoLostUpdate ==
    ((\A t \in Callers : co_pc[t] = "done") /\ sync_file.state = "ok")
        => RegisteredArePersisted

\* When both callers call the same service object, no update is lost: the
\* two coroutines append to one list and every _save_state writes all of it.
SameObjectLosesNoUpdate ==
    (peer_shares /\ sync_file.state = "ok") => RegisteredArePersisted

----------------------------------------------------------------------------
(***************************************************************************)
(* Routing history and the agent pool                                      *)
(***************************************************************************)

\* C21: each successful select_agent call on the load-balancing branch
\* (prefer_local=false) appends exactly one routing record, as the last
\* element of the routing history, with the call's problem_type and the
\* returned agent; all earlier records are unchanged.
C21_SelectAppendsOneRecord ==
    [][(/\ orch_ret'.op = "select_agent" /\ ~orch_ret'.prefer_local
        /\ orch_ret'.outcome = "returned") =>
          /\ Len(routing_history') = Len(routing_history) + 1
          /\ SubSeq(routing_history', 1, Len(routing_history)) = routing_history
          /\ routing_history'[Len(routing_history')].problem_type = orch_ret'.problem_type
          /\ routing_history'[Len(routing_history')].selected_agent = orch_ret'.agent]_vars

\* C21 witness: a load-balancing call has returned and its record is the
\* second of the routing history, after a record of the other problem type.
C21_Witness ==
    /\ orch_ret.op = "select_agent" /\ ~orch_ret.prefer_local
    /\ orch_ret.outcome = "returned"
    /\ Len(routing_history) = 2
    /\ routing_history[2].selected_agent = orch_ret.agent
    /\ routing_history[2].problem_type = orch_ret.problem_type
    /\ routing_history[1].problem_type # routing_history[2].problem_type

\* C23: select_agent never changes the agent pool: the availability and the
\* load of every agent are the same after any select_agent or solve call as
\* before it.
C23_SelectionLeavesPool ==
    [][orch_ret'.op \in {"select_agent", "solve_problem"} => agent_pool' = agent_pool]_vars

\* C23 witness: solve has returned on an installed pool of two available
\* agents of different load, having routed to the less loaded one.
C23_Witness ==
    /\ orch_ret.op = "solve_problem" /\ orch_ret.outcome = "returned"
    /\ Len(agent_pool) = 2
    /\ agent_pool[1].available /\ agent_pool[2].available
    /\ agent_pool[1].solving_capacity > agent_pool[2].solving_capacity
    /\ Len(routing_history) = 1
    /\ routing_history[1].selected_agent = agent_pool[2].name
    /\ orch_ret.agent = agent_pool[2].name

\* the number of records of the history whose field has the value v
RecordsWith(field, v) ==
    Cardinality({i \in DOMAIN routing_history : routing_history[i][field] = v})

\* the values a field takes in the history
ValuesOf(field) == {routing_history[i][field] : i \in DOMAIN routing_history}

RECURSIVE SumCounts(_)
SumCounts(d) ==
    IF DOMAIN d = {}
    THEN 0
    ELSE LET k == CHOOSE x \in DOMAIN d : TRUE
         IN  d[k] + SumCounts([x \in DOMAIN d \ {k} |-> d[x]])

\* the counts of one dictionary of the statistics agree with the history
CountsAgree(d, field) ==
    /\ DOMAIN d = ValuesOf(field)
    /\ \A v \in DOMAIN d : d[v] = RecordsWith(field, v)
    /\ SumCounts(d) = Len(routing_history)

\* C22: after any sequence of select_agent calls, get_routing_stats returns
\* total_routed equal to the length of the routing history, by_agent[a] equal
\* to the number of records whose selected agent is a, the per-type count of
\* t (the dictionary the code names problem_types) equal to the number of
\* records with problem type t, and both dictionaries' counts sum to
\* total_routed.
C22_RoutingStatsCount ==
    orch_ret.op = "get_routing_stats" =>
        /\ orch_ret.routing_stats.total_routed = Len(routing_history)
        /\ CountsAgree(orch_ret.routing_stats.by_agent, "selected_agent")
        /\ CountsAgree(orch_ret.routing_stats.problem_types, "problem_type")

\* C22 witness: statistics returned over three records, two for one agent
\* and one for another, of two problem types.
C22_Witness ==
    /\ orch_ret.op = "get_routing_stats"
    /\ orch_ret.routing_stats.total_routed = 3
    /\ Cardinality(DOMAIN orch_ret.routing_stats.by_agent) = 2
    /\ Cardinality(DOMAIN orch_ret.routing_stats.problem_types) = 2
    /\ \E a \in DOMAIN orch_ret.routing_stats.by_agent :
          orch_ret.routing_stats.by_agent[a] = 2

----------------------------------------------------------------------------
(***************************************************************************)
(* resolve and its arguments                                               *)
(***************************************************************************)

\* C24: resolve is pure with respect to its inputs: it returns exactly one
\* of its two argument entries, and neither entry's confidence, created_at
\* or any other field is modified by the call.
C24_ResolveLeavesEntries ==
    [][(resolved.status = "pending" /\ resolved'.status # "pending") =>
          /\ omnilore_entry' = omnilore_entry
          /\ oxproxion_entry' = oxproxion_entry
          /\ resolved'.status = "returned" =>
                resolved'.selected \in {omnilore_entry, oxproxion_entry}]_vars

\* C24 witness: resolve returned the first entry by recency although the
\* second entry has the higher confidence, and both entries are as given.
C24_Witness ==
    /\ resolved.status = "returned"
    /\ Len(audit_tasks) = 1
    /\ audit_tasks[1].strategy = "Recency"
    /\ oxproxion_entry.confidence > omnilore_entry.confidence
    /\ resolved.selected = omnilore_entry
    /\ resolved.selected # oxproxion_entry
    /\ omnilore_entry \in EntriesOf("omnilore")
    /\ oxproxion_entry \in EntriesOf("oxproxion")

----------------------------------------------------------------------------
(***************************************************************************)
(* export_batch                                                            *)
(***************************************************************************)

\* export_batch has ended, by returning or by raising
ExportEnded == exp_ret.op = "export_batch" /\ exp_ret.outcome # "pending"

\* the counts of a returned result add up to the number of queries
ReturnedCountsAddUp ==
    (ExportEnded /\ exp_ret.outcome = "returned") =>
        /\ exp_ret.result.exported_entries + exp_ret.result.errors = exp_ret.result.total
        /\ exp_ret.result.total = Len(exp.queries)
        /\ Len(exp_ret.result.results) = Len(exp.queries)

\* C25: export_batch over any list of queries always returns a result object
\* in which exported_entries + errors = total = number of queries, and it
\* does not raise when the external chat call fails for individual queries.
\* Stated for an exporter that has its collaborator.
C25_BatchAlwaysReturnsCounts ==
    (ExportEnded /\ exp_client = "present") =>
        /\ exp_ret.outcome = "returned"
        /\ exp_ret.result.exported_entries + exp_ret.result.errors = exp_ret.result.total
        /\ exp_ret.result.total = Len(exp.queries)

----------------------------------------------------------------------------
(***************************************************************************)
(* sync_batch and the ledger                                               *)
(***************************************************************************)

SyncBatchReturned == fed_ret.op = "sync_batch" /\ fed_ret.outcome = "returned"

\* what the code does: the ledger grows by one event for every entry that
\* has an id, counted in synced or in errors
LedgerGrowsByRegistered ==
    SyncBatchReturned =>
        Len(sync_history) = fed_ret.ledger_before + fed_ret.result.synced
                            + (fed_ret.result.errors - fed_ret.result.malformed)

\* C26: after sync_batch returns, the in-memory sync ledger has grown by
\* exactly the reported synced count; an entry counted in errors (malformed,
\* or whose register_sync failed at the external store or persist step)
\* leaves no event in the ledger.
C26_LedgerGrowsBySynced ==
    SyncBatchReturned =>
        Len(sync_history) = fed_ret.ledger_before + fed_ret.result.synced

----------------------------------------------------------------------------
(***************************************************************************)
(* The persisted totals                                                    *)
(***************************************************************************)

\* a completed _save_state of the orchestrator replaces one readable
\* document by the next
OrchDocumentRewritten ==
    orch_file.state = "ok" /\ orch_file'.state = "ok" /\ orch_file' # orch_file

\* a completed _save_state of the federation service does the same
SyncDocumentRewritten ==
    sync_file.state = "ok" /\ sync_file'.state = "ok" /\ sync_file' # sync_file

\* C27: the persisted totals (sync_count in the sync document,
\* total_solutions in the orchestration document) never decrease over any
\* sequence of successful register_sync / solve calls interleaved with
\* process restarts that reload the state file.
C27_PersistedTotalsNeverDecrease ==
    [][/\ OrchDocumentRewritten => orch_file'.total_solutions >= orch_file.total_solutions
       /\ SyncDocumentRewritten => sync_file'.sync_count >= sync_file.sync_count]_vars

----------------------------------------------------------------------------
(***************************************************************************)
(* Routing records and solutions                                           *)
(***************************************************************************)

\* The solutions appended since startup: the clock of a process starts at 0,
\* so they are the ones stamped after 0; the loaded ones are older.
AppendedSolutions == SelectSeq(solutions, LAMBDA s : s.timestamp > 0)

\* C28: within one process, after any sequence of solve calls, the number of
\* routing records in the router's history equals the number of solutions
\* appended since startup, and the i-th routing record's selected agent and
\* problem type equal the i-th appended solution's solved_by and
\* problem_type.
C28_RoutingMatchesSolutions ==
    /\ Len(routing_history) = Len(AppendedSolutions)
    /\ \A i \in DOMAIN routing_history :
          /\ routing_history[i].selected_agent = AppendedSolutions[i].solved_by
          /\ routing_history[i].problem_type = AppendedSolutions[i].problem_type

\* C28 witness: two solve calls on top of loaded solutions, routed to
\* different agents for different problem types; the second could not be
\* saved.
C28_Witness ==
    /\ orch_ret.op = "solve_problem" /\ orch_ret.exc = "OSError"
    /\ Len(solutions) = SolutionsKept + 1
    /\ Len(routing_history) = 2
    /\ routing_history[1].selected_agent # routing_history[2].selected_agent
    /\ routing_history[1].problem_type # routing_history[2].problem_type
    /\ AppendedSolutions[2].solved_by = routing_history[2].selected_agent

============================================================================
